---- MODULE Spec2Model ----
(***************************************************************************)
(* Model of fluentpy's wrapper chain (src/fluentpy/wrapper.py): the wrap   *)
(* factory, the Wrapper nodes it creates, the attribute / item / call      *)
(* forwarding that re-wraps every result, and the .self / .unwrap /        *)
(* .previous breakouts.                                                    *)
(*                                                                         *)
(* Python values are records [obj, meth, node]:                            *)
(*   Raw(o)      the object named o                                        *)
(*   Bound(o, m) the bound method getattr(o, m)                            *)
(*   Ref(k)      the Wrapper instance stored at heap[k]                    *)
(*   None        Python's None                                             *)
(* Wrapper instances live in heap, a sequence that only grows; a node's    *)
(* previous is an index into heap, 0 standing for None.                    *)
(***************************************************************************)
EXTENDS Integers, Sequences, FiniteSets, TLC

VARIABLES heap, store, result

vars == <<heap, store, result>>

-----------------------------------------------------------------------------
(* Bounds *)

MaxNodes == 3

-----------------------------------------------------------------------------
(* Values *)

\* the classes wrap() tests a value against
Classes == {"ModuleType", "Text", "Mapping", "AbstractSet", "Iterable",
            "Callable"}

\* the objects the program chains off of, each standing for its kind: a
\* module, a dict, a list, a function and an instance of a plain class
Receivers == {"mod", "map", "lst", "fn", "obj"}

\* the tested classes the object named o is an instance of
ClassesOf(o) ==
    CASE o \in {"mod", "sub"} -> {"ModuleType"}
      [] o \in {"bar", "baz", "item"} -> {"Text", "Iterable"}
      [] o = "map" -> {"Mapping", "Iterable"}
      [] o = "lst" -> {"Iterable"}
      [] o = "fn" -> {"Callable"}
      [] OTHER -> {}

\* a value carries its identity and the classes it is an instance of
Raw(o) == [obj |-> o, meth |-> "", node |-> 0, isa |-> ClassesOf(o)]

Bound(o, m) == [obj |-> o, meth |-> m, node |-> 0, isa |-> {"Callable"}]

Ref(k) == [obj |-> "", meth |-> "", node |-> k, isa |-> {"Wrapper"}]

\* an instance of a class that is a (virtual) subclass of exactly isa
Kind(isa) == [obj |-> "kind", meth |-> "", node |-> 0, isa |-> isa]

None == Raw("None")

\* isinstance(v, clazz)
isinstance(v, clazz) == clazz \in v.isa

\* positional and keyword arguments of a call
Pack(args, kwargs) == [args |-> args, kwargs |-> kwargs]

NoArgs == Pack(<<>>, <<>>)

-----------------------------------------------------------------------------
(* wrap() and Wrapper.__init__ *)

\* variant of by_type: the general iterable tested before the mapping
by_type_iterable_first == <<
    <<"ModuleType", "ModuleWrapper">>,
    <<"Text", "TextWrapper">>,
    <<"Iterable", "IterableWrapper">>,
    <<"Mapping", "MappingWrapper">>,
    <<"AbstractSet", "SetWrapper">>,
    <<"Callable", "CallableWrapper">> >>

by_type == <<
    <<"ModuleType", "ModuleWrapper">>,
    <<"Text", "TextWrapper">>,
    <<"Mapping", "MappingWrapper">>,
    <<"AbstractSet", "SetWrapper">>,
    <<"Iterable", "IterableWrapper">>,
    <<"Callable", "CallableWrapper">> >>

\* the for loop of wrap(): the wrapper of the first entry of by_type whose
\* class the value is an instance of, Wrapper when the loop falls through
FirstMatch(v) ==
    LET hits == {i \in 1..Len(by_type) : isinstance(v, by_type[i][1])}
    IN  IF hits = {} THEN "Wrapper"
        ELSE by_type[CHOOSE i \in hits : \A j \in hits : i <= j][2]

\* what an operation did: the heap it leaves, the node it returned (0 when
\* it returned None or raised) and the exception it raised ("" for none)
Done(h, n, e) == [heap |-> h, node |-> n, err |-> e]

\* variant of WrapperInit: the assertion left out
WrapperInit_unchecked(h, cls, wrapped, previous) ==
    Done(Append(h, [wrapped |-> wrapped, previous |-> previous, cls |-> cls]),
         Len(h) + 1, "")

\* Wrapper.__init__, called as wrapper(wrapped, previous=previous)
WrapperInit(h, cls, wrapped, previous) ==
    IF wrapped = None /\ previous = 0
    THEN Done(h, 0, "AssertionError")
    ELSE Done(Append(h, [wrapped |-> wrapped, previous |-> previous,
                         cls |-> cls]),
              Len(h) + 1, "")

\* variant of wrap: a wrapper is wrapped again
wrap_again(h, wrapped, previous) ==
    WrapperInit(h, FirstMatch(wrapped), wrapped, previous)

\* wrap(wrapped, previous=previous)
wrap(h, wrapped, previous) ==
    IF isinstance(wrapped, "Wrapper")
    THEN Done(h, wrapped.node, "")
    ELSE WrapperInit(h, FirstMatch(wrapped), wrapped, previous)

-----------------------------------------------------------------------------
(* The wrapped objects: attributes, items, calls *)

AttrNames == {"m", "foo", "sub"}

ItemKeys == {"foo", "n"}

\* what a builtin did: the value it returned or the exception it raised, and
\* the object store it leaves
Fail(s, e) == [ok |-> FALSE, value |-> None, err |-> e, store |-> s]

Ok(s, v) == [ok |-> TRUE, value |-> v, err |-> "", store |-> s]

\* getattr(v, name)
PyGetattr(s, v, name) ==
    IF v.meth # "" \/ v.obj \notin Receivers THEN Fail(s, "AttributeError")
    ELSE CASE name = "m" -> Ok(s, Bound(v.obj, "m"))
           [] name = "foo" -> IF s[v.obj] = "absent"
                                THEN Fail(s, "AttributeError")
                                ELSE Ok(s, Raw(s[v.obj]))
           [] OTHER -> Fail(s, "AttributeError")

\* hasattr(v, name)
PyHasattr(s, v, name) == PyGetattr(s, v, name).ok

\* setattr(v, "foo", "baz")
PySetattr(s, v) ==
    IF v.meth # "" \/ v.obj \notin Receivers THEN Fail(s, "AttributeError")
    ELSE Ok([s EXCEPT ![v.obj] = "baz"], None)

\* delattr(v, "foo")
PyDelattr(s, v) ==
    IF v.meth # "" \/ v.obj \notin Receivers \/ s[v.obj] = "absent"
    THEN Fail(s, "AttributeError")
    ELSE Ok([s EXCEPT ![v.obj] = "absent"], None)

\* print(v)
PyPrint(s, v) == Ok(s, None)

\* operator.getitem(v, key)
PyGetitem(s, v, key) ==
    IF v = Raw("map")
    THEN CASE key = "foo" -> Ok(s, Raw("item"))
           [] key = "n" -> Ok(s, None)
           [] OTHER -> Fail(s, "KeyError")
    ELSE Fail(s, "TypeError")

\* name in v
PyContains(v, name) == v = Raw("map") /\ name \in ItemKeys

\* v(*args, **kwargs) for a callable v that returns ret; a method that
\* returns None is one that changed its receiver instead
PyCall(s, v, ret) ==
    IF ret = None /\ v.meth # "" /\ v.obj \in Receivers
    THEN Ok([s EXCEPT ![v.obj] = "baz"], ret)
    ELSE Ok(s, ret)

virtual_root_module == "virtual root module"

\* importlib.import_module(dotted name)
ImportModule(s, v, name) ==
    IF (v.obj = virtual_root_module /\ name = "mod")
       \/ (v.obj = "mod" /\ name = "sub")
    THEN Ok(s, Raw(name))
    ELSE Fail(s, "ImportError")

-----------------------------------------------------------------------------
(* The forwarding decorator and the methods built with it *)

\* what an operation of a node did: Done, and the store it leaves, the
\* value the forwarded function returned and the arguments the payload was
\* invoked with
Forwarding(w, r, got) ==
    [heap |-> w.heap, node |-> w.node, err |-> w.err, store |-> r.store,
     ret |-> r.value, got |-> got]

\* variant of wrapped: the result is wrapped without its previous
wrapped_without_previous(h, recv, r, got) ==
    Forwarding(IF r.ok THEN wrap(h, r.value, 0) ELSE Done(h, 0, r.err),
               r, got)

\* variant of wrapped: a failure of wrapped_function is swallowed, None is
\* wrapped in its place
wrapped_swallowing(h, recv, r, got) ==
    Forwarding(wrap(h, IF r.ok THEN r.value ELSE None, recv),
               Ok(r.store, IF r.ok THEN r.value ELSE None), got)

\* wrapped(wrapped_function): r is what wrapped_function returned or raised,
\* given the receiver's payload in front of the arguments as they came; its
\* result is wrapped with the receiver as previous
wrapped(h, recv, r, got) ==
    Forwarding(IF r.ok THEN wrap(h, r.value, recv) ELSE Done(h, 0, r.err),
               r, got)

\* Wrapper.__getattr__ = wrapped(getattr)
WrapperGetattr(h, s, recv, name) ==
    wrapped(h, recv, PyGetattr(s, h[recv].wrapped, name), NoArgs)

\* Wrapper.__getitem__ = wrapped(operator.getitem)
WrapperGetitem(h, s, recv, key) ==
    wrapped(h, recv, PyGetitem(s, h[recv].wrapped, key), NoArgs)

\* ModuleWrapper.__getattr__
ModuleGetattr(h, s, recv, name) ==
    LET v == h[recv].wrapped
        attr == PyGetattr(s, v, name)
        module == ImportModule(s, v, name)
    IN  IF PyHasattr(s, v, name)
        THEN Forwarding(wrap(h, attr.value, 0), attr, NoArgs)
        ELSE Forwarding(IF module.ok THEN wrap(h, module.value, 0)
                        ELSE Done(h, 0, module.err),
                        module, NoArgs)

\* variant of MappingGetattr: plain attribute lookup
MappingGetattr_plain(h, s, recv, name) == WrapperGetattr(h, s, recv, name)

\* MappingWrapper.__getattr__
MappingGetattr(h, s, recv, name) ==
    IF PyContains(h[recv].wrapped, name)
    THEN WrapperGetitem(h, s, recv, name)
    ELSE WrapperGetattr(h, s, recv, name)

\* attribute lookup on a node: the __getattr__ of the node's class
Getattr(h, s, recv, name) ==
    CASE h[recv].cls = "ModuleWrapper" -> ModuleGetattr(h, s, recv, name)
      [] h[recv].cls = "MappingWrapper" -> MappingGetattr(h, s, recv, name)
      [] OTHER -> WrapperGetattr(h, s, recv, name)

\* the payload of a wrapper, any other value as it is
Payload(h, v) == IF isinstance(v, "Wrapper") THEN h[v.node].wrapped ELSE v

\* an argument list with every wrapper in it replaced by its payload
UnwrappedPack(h, pack) ==
    Pack([i \in 1..Len(pack.args) |-> Payload(h, pack.args[i])],
         [i \in 1..Len(pack.kwargs) |->
             <<pack.kwargs[i][1], Payload(h, pack.kwargs[i][2])>>])

\* variant of CallableCall: wrapper arguments are unwrapped before the call
CallableCall_unwrapping(h, s, recv, pack, ret) ==
    wrapped(h, recv, PyCall(s, h[recv].wrapped, ret), UnwrappedPack(h, pack))

\* CallableWrapper.__call__ = wrapped(lambda self, *args, **kwargs:
\* self(*args, **kwargs)): the payload is called with the arguments as given
CallableCall(h, s, recv, pack, ret) ==
    wrapped(h, recv, PyCall(s, h[recv].wrapped, ret), pack)

\* Wrapper.setattr = wrapped(setattr), Wrapper.delattr = wrapped(delattr),
\* Wrapper.print = wrapped(print)
Forwarded(h, s, recv, f) ==
    wrapped(h, recv,
            CASE f = "setattr" -> PySetattr(s, h[recv].wrapped)
              [] f = "delattr" -> PyDelattr(s, h[recv].wrapped)
              [] OTHER -> PyPrint(s, h[recv].wrapped),
            NoArgs)

-----------------------------------------------------------------------------
(* Breakouts: properties of a node, they create nothing *)

\* variant of unwrap: the older snapshot's chain value, which falls back to
\* the previous node's payload when the node's own is None
unwrap_chain(h, n) ==
    IF h[n].wrapped = None /\ h[n].previous # 0
    THEN h[h[n].previous].wrapped
    ELSE h[n].wrapped

\* Wrapper.unwrap
unwrap(h, n) == h[n].wrapped

\* Wrapper.previous
previous(h, n) == h[n].previous

\* variant of self: the older snapshot's rule, a node's own value whenever
\* it is not None
self_own_value(h, n) ==
    IF unwrap(h, n) # None THEN n
    ELSE IF previous(h, n) # 0 /\ h[previous(h, n)].cls = "CallableWrapper"
         THEN previous(h, previous(h, n))
         ELSE previous(h, n)

\* variant of self: always one level back
self_one_level(h, n) == previous(h, n)

\* Wrapper.self; 0 when the property evaluates to None
self(h, n) ==
    IF previous(h, n) # 0 /\ h[previous(h, n)].cls = "CallableWrapper"
    THEN previous(h, previous(h, n))
    ELSE previous(h, n)

-----------------------------------------------------------------------------
(* The program: any sequence of operations on any live node *)

\* result is the last operation: its name, the node it was applied to, the
\* arguments the program gave it, the arguments the wrapped callable was
\* invoked with (calls only), the value the forwarded builtin returned, the
\* node the operation returned (0: None, or it raised) and the exception
Outcome(op, recv, args, got, ret, w) ==
    [op |-> op, recv |-> recv, args |-> args, got |-> got, ret |-> ret,
     node |-> w.node, err |-> w.err]

Init ==
    /\ heap = <<>>
    /\ store = [o \in Receivers |-> "bar"]
    /\ result = Outcome("init", 0, NoArgs, NoArgs, None, Done(<<>>, 0, ""))

Nodes == 1..Len(heap)

\* a node or None, as a value
NodeOrNone(p) == IF p = 0 THEN None ELSE Ref(p)

\* the values a program can name: the receivers, None and the live wrappers
Values == {Raw(o) : o \in Receivers} \cup {None} \cup {Ref(k) : k \in Nodes}

\* the argument lists of the calls a program makes
Packs == {NoArgs, Pack(<<Raw("obj")>>, <<>>)}
         \cup {Pack(<<Ref(k)>>, <<>>) : k \in Nodes}
         \cup {Pack(<<>>, << <<"x", Ref(k)>> >>) : k \in Nodes}

\* what the called functions return
Returns == {None, Raw("res")} \cup {Ref(k) : k \in Nodes}

\* wrap(v) and wrap(v, previous=p), called by the program
Wrap(v, p) ==
    /\ Len(heap) < MaxNodes
    /\ LET w == wrap(heap, v, p)
       IN  /\ heap' = w.heap
           /\ result' = Outcome("wrap", 0,
                                Pack(<<v>>, << <<"previous", NodeOrNone(p)>> >>),
                                NoArgs, None, w)
    /\ UNCHANGED store

\* n.name
GetAttr(n, name) ==
    /\ Len(heap) < MaxNodes
    /\ LET w == Getattr(heap, store, n, name)
       IN  /\ heap' = w.heap
           /\ result' = Outcome("getattr", n, Pack(<<Raw(name)>>, <<>>),
                                NoArgs, w.ret, w)
    /\ UNCHANGED store

\* n[key]
GetItem(n, key) ==
    /\ Len(heap) < MaxNodes
    /\ LET w == WrapperGetitem(heap, store, n, key)
       IN  /\ heap' = w.heap
           /\ result' = Outcome("getitem", n, Pack(<<Raw(key)>>, <<>>),
                                NoArgs, w.ret, w)
    /\ UNCHANGED store

\* n(*args, **kwargs) on a CallableWrapper, the called function returning ret
Call(n, pack, ret) ==
    /\ Len(heap) < MaxNodes
    /\ heap[n].cls = "CallableWrapper"
    /\ LET w == CallableCall(heap, store, n, pack, ret)
       IN  /\ heap' = w.heap
           /\ store' = w.store
           /\ result' = Outcome("call", n, pack, w.got, w.ret, w)

\* n(...) on a node of any other class: no other class defines __call__
CallUncallable(n) ==
    /\ Len(heap) < MaxNodes
    /\ heap[n].cls # "CallableWrapper"
    /\ result' = Outcome("call", n, NoArgs, NoArgs, None,
                         Done(heap, 0, "TypeError"))
    /\ UNCHANGED <<heap, store>>

\* n.setattr("foo", "baz"), n.delattr("foo"), n.print()
Forward(n, f) ==
    /\ Len(heap) < MaxNodes
    /\ LET w == Forwarded(heap, store, n, f)
       IN  /\ heap' = w.heap
           /\ store' = w.store
           /\ result' = Outcome(f, n, NoArgs, NoArgs, w.ret, w)

Next ==
    \/ \E v \in Values, p \in {0} \cup Nodes : Wrap(v, p)
    \/ \E n \in Nodes, name \in AttrNames : GetAttr(n, name)
    \/ \E n \in Nodes, key \in ItemKeys : GetItem(n, key)
    \/ \E n \in Nodes, pack \in Packs, ret \in Returns : Call(n, pack, ret)
    \/ \E n \in Nodes : CallUncallable(n)
    \/ \E n \in Nodes, f \in {"setattr", "delattr", "print"} : Forward(n, f)

Spec == Init /\ [][Next]_vars

\* the kinds of value wrap() can be handed: every combination of the tested
\* classes; a text, a mapping or a set is iterable as well
Kinds ==
    {isa \in SUBSET Classes :
        isa \cap {"Text", "Mapping", "AbstractSet"} # {} => "Iterable" \in isa}

\* the program wrapping values of every kind
NextClassify == \E isa \in Kinds : Wrap(Kind(isa), 0)

SpecClassify == Init /\ [][NextClassify]_vars

TypeOK ==
    /\ Len(heap) <= MaxNodes
    /\ \A n \in Nodes : heap[n].previous < n

-----------------------------------------------------------------------------
(* CallableWrapper.curry: placeholders and merge_arguments *)

MaxEntries == 3

MaxActual == 3

NUMBER_OF_NAMED_ARGUMENT_PLACEHOLDERS == 10

\* the function wrap itself, the generic placeholder (the executable module
\* that stands in for it behaves the same)
wrap_function == [obj |-> "wrap", meth |-> "", node |-> 0, isa |-> {"Callable"}]

\* wrap(index), created when the module is loaded and exported as _0, _1, ...
reordering_placeholder(index) ==
    [obj |-> "wrap(index)", meth |-> "", node |-> 0, isa |-> {"Wrapper"},
     index |-> index]

\* wrap('*'), exported as _args
splat_args_placeholder ==
    [obj |-> "wrap('*')", meth |-> "", node |-> 0, isa |-> {"Wrapper"}]

placeholders == {wrap_function}

reordering_placeholders ==
    {reordering_placeholder(index) :
        index \in 0..(NUMBER_OF_NAMED_ARGUMENT_PLACEHOLDERS - 1)}

all_placeholders ==
    placeholders \cup reordering_placeholders \cup {splat_args_placeholder}

\* the value written at position index of a positional template
default_arg(index) ==
    [obj |-> "default_arg", meth |-> "", node |-> 0, isa |-> {}, at |-> index]

\* the value written for name in a keyword template
default_kwarg(name) ==
    [obj |-> "default_kwarg", meth |-> "", node |-> 0, isa |-> {},
     name |-> name]

\* the index-th positional argument of a call
actual_arg(index) ==
    [obj |-> "actual_arg", meth |-> "", node |-> 0, isa |-> {}, at |-> index]

\* the argument a call passes as name=
actual_kwarg(name) ==
    [obj |-> "actual_kwarg", meth |-> "", node |-> 0, isa |-> {},
     name |-> name]

\* a tuple of values
Tuple(items) ==
    [obj |-> "tuple", meth |-> "", node |-> 0, isa |-> {"Iterable"},
     items |-> items]

\* the function curry returns: wrapper, closed over self, default_args and
\* default_kwargs
Curried(target, defaults) ==
    [obj |-> "curried", meth |-> "", node |-> 0, isa |-> {"Callable"},
     target |-> target, default_args |-> defaults.args,
     default_kwargs |-> defaults.kwargs]

\* sequence[index] and sequence[index:] of Python, indexes counting from 0
At(sequence, index) == sequence[index + 1]

From(sequence, index) == SubSeq(sequence, index + 1, Len(sequence))

\* keyword arguments are a sequence of <<name, value>>, in dict order
Names(kwargs) == {kwargs[i][1] : i \in DOMAIN kwargs}

ValueOf(kwargs, name) ==
    kwargs[CHOOSE i \in DOMAIN kwargs : kwargs[i][1] = name][2]

\* variant of merged_default_kwargs: the defaults win
merged_default_kwargs_keeping_defaults(default_kwargs, actual_kwargs) ==
    default_kwargs
    \o SelectSeq(actual_kwargs, LAMBDA kv : kv[1] \notin Names(default_kwargs))

\* dict(default_kwargs, **actual_kwargs)
merged_default_kwargs(default_kwargs, actual_kwargs) ==
    [i \in 1..Len(default_kwargs) |->
        IF default_kwargs[i][1] \in Names(actual_kwargs)
        THEN <<default_kwargs[i][1],
               ValueOf(actual_kwargs, default_kwargs[i][1])>>
        ELSE default_kwargs[i]]
    \o SelectSeq(actual_kwargs, LAMBDA kv : kv[1] \notin Names(default_kwargs))

\* the messages of the two assertions; <<>> is an assertion that held
NotEnoughArguments(need, got) ==
    <<"Not enough arguments given to curried function", need, got>>

NeedsToBeLast == <<"Variable arguments placeholder <_args> needs to be last">>

\* variant of assert_has_enough_args: the message counts from 0
assert_has_enough_args_from_zero(actual_args, required_number) ==
    IF Len(actual_args) > required_number THEN <<>>
    ELSE NotEnoughArguments(required_number, Len(actual_args))

assert_has_enough_args(actual_args, required_number) ==
    IF Len(actual_args) > required_number THEN <<>>
    ELSE NotEnoughArguments(required_number + 1, Len(actual_args))

\* variant of assert_is_last_keyword_placeholder: nothing is asserted
assert_is_last_keyword_placeholder_skipped(merged_kwargs, arg_index) == <<>>

assert_is_last_keyword_placeholder(merged_kwargs, arg_index) ==
    IF \A i \in (arg_index + 2)..Len(merged_kwargs) :
           merged_kwargs[i][2] \notin all_placeholders
    THEN <<>>
    ELSE NeedsToBeLast

assert_is_last_positional_placeholder(default_args, merged_kwargs, arg_index) ==
    IF arg_index + 1 # Len(default_args) THEN NeedsToBeLast
    ELSE assert_is_last_keyword_placeholder(merged_kwargs, -1)

\* variant of next_placeholder_index: reordering placeholders do not count
next_placeholder_index_skipping_reordering(placeholder_index, default) ==
    IF default \in placeholders \cup {splat_args_placeholder}
    THEN placeholder_index + 1
    ELSE placeholder_index

\* placeholder_index += 1 for a template entry that is a placeholder of any
\* kind
next_placeholder_index(placeholder_index, default) ==
    IF default \in all_placeholders THEN placeholder_index + 1
    ELSE placeholder_index

\* actual_args[placeholder_index], for the generic placeholder
hole_argument(actual_args, placeholder_index) ==
    At(actual_args, placeholder_index)

\* variant of reordered_argument: the placeholder's number is ignored
reordered_argument_first(actual_args, default) == At(actual_args, 0)

\* actual_args[arg_default.unwrap], for a reordering placeholder
reordered_argument(actual_args, default) == At(actual_args, default.index)

\* variant of splat_arguments: everything is collected, used before or not
splat_arguments_all(actual_args, placeholder_index) == Tuple(actual_args)

\* actual_args[placeholder_index:], for the splat placeholder
splat_arguments(actual_args, placeholder_index) ==
    Tuple(From(actual_args, placeholder_index))

\* one template entry resolved: the assertion that failed if any, the value
\* it contributes and the indexes of actual_args it used; is_last is the
\* outcome of the splat placeholder's assertion at this entry
Resolved(actual_args, placeholder_index, default, is_last) ==
    LET failure ==
            CASE default \in placeholders ->
                     assert_has_enough_args(actual_args, placeholder_index)
              [] default \in reordering_placeholders ->
                     assert_has_enough_args(actual_args, default.index)
              [] default = splat_args_placeholder -> is_last
              [] OTHER -> <<>>
    IN  [failure |-> failure,
         value |->
            CASE failure # <<>> -> None
              [] default \in placeholders ->
                     hole_argument(actual_args, placeholder_index)
              [] default \in reordering_placeholders ->
                     reordered_argument(actual_args, default)
              [] default = splat_args_placeholder ->
                     splat_arguments(actual_args, placeholder_index)
              [] OTHER -> default,
         used |->
            CASE failure # <<>> -> {}
              [] default \in placeholders -> {placeholder_index}
              [] default \in reordering_placeholders -> {default.index}
              [] default = splat_args_placeholder ->
                     placeholder_index..(Len(actual_args) - 1)
              [] OTHER -> {}]

\* the state of merge_arguments between two template entries
Merging(merged_args, merged_kwargs, placeholder_index, used, failure) ==
    [args |-> merged_args, kwargs |-> merged_kwargs,
     placeholder_index |-> placeholder_index, used |-> used,
     failure |-> failure]

\* for arg_index, arg_default in enumerate(default_args), from arg_index on
RECURSIVE merge_positional(_, _, _, _, _)
merge_positional(st, actual_args, default_args, merged_kwargs, arg_index) ==
    IF arg_index = Len(default_args) \/ st.failure # <<>> THEN st
    ELSE LET arg_default == At(default_args, arg_index)
             placeholder_index ==
                 next_placeholder_index(st.placeholder_index, arg_default)
             r == Resolved(actual_args, placeholder_index, arg_default,
                           assert_is_last_positional_placeholder(
                               default_args, merged_kwargs, arg_index))
         IN  merge_positional(
                 Merging(IF r.failure = <<>> THEN Append(st.args, r.value)
                         ELSE st.args,
                         st.kwargs, placeholder_index, st.used \cup r.used,
                         r.failure),
                 actual_args, default_args, merged_kwargs, arg_index + 1)

\* for kwarg_index, (kwarg_name, kwarg_default) in
\* enumerate(merged_default_kwargs.items()), from kwarg_index on
RECURSIVE merge_keyword(_, _, _, _)
merge_keyword(st, actual_args, merged_kwargs, kwarg_index) ==
    IF kwarg_index = Len(merged_kwargs) \/ st.failure # <<>> THEN st
    ELSE LET kwarg_name == At(merged_kwargs, kwarg_index)[1]
             kwarg_default == At(merged_kwargs, kwarg_index)[2]
             placeholder_index ==
                 next_placeholder_index(st.placeholder_index, kwarg_default)
             r == Resolved(actual_args, placeholder_index, kwarg_default,
                           assert_is_last_keyword_placeholder(
                               merged_kwargs, kwarg_index))
         IN  merge_keyword(
                 Merging(st.args,
                         IF r.failure = <<>>
                         THEN Append(st.kwargs, <<kwarg_name, r.value>>)
                         ELSE st.kwargs,
                         placeholder_index, st.used \cup r.used, r.failure),
                 actual_args, merged_kwargs, kwarg_index + 1)

\* max(used_arg_indexes, default=-1)
last_used_argument(used) ==
    IF used = {} THEN -1 ELSE CHOOSE i \in used : \A j \in used : j <= i

\* variant of leftover_arguments: as many arguments skipped as were used
leftover_arguments_by_count(actual_args, used) ==
    From(actual_args, Cardinality(used))

\* actual_args[last_used_argument+1:]
leftover_arguments(actual_args, used) ==
    From(actual_args, last_used_argument(used) + 1)

\* variant of merge_arguments: the keyword template counts its placeholders
\* from the first actual argument again
merge_arguments_twice(default_args, default_kwargs, actual_args, actual_kwargs) ==
    LET merged_kwargs == merged_default_kwargs(default_kwargs, actual_kwargs)
        positional == merge_positional(Merging(<<>>, <<>>, -1, {}, <<>>),
                                       actual_args, default_args,
                                       merged_kwargs, 0)
        st == merge_keyword(Merging(positional.args, <<>>, -1,
                                    positional.used, positional.failure),
                            actual_args, merged_kwargs, 0)
    IN  IF st.failure # <<>>
        THEN [failure |-> st.failure, args |-> <<>>, kwargs |-> <<>>]
        ELSE [failure |-> <<>>,
              args |-> st.args \o leftover_arguments(actual_args, st.used),
              kwargs |-> st.kwargs]

\* merge_arguments(actual_args, actual_kwargs) of curry(*default_args,
\* **default_kwargs): the assertion that failed, or the merged arguments
merge_arguments(default_args, default_kwargs, actual_args, actual_kwargs) ==
    LET merged_kwargs == merged_default_kwargs(default_kwargs, actual_kwargs)
        positional == merge_positional(Merging(<<>>, <<>>, -1, {}, <<>>),
                                       actual_args, default_args,
                                       merged_kwargs, 0)
        st == merge_keyword(positional, actual_args, merged_kwargs, 0)
    IN  IF st.failure # <<>>
        THEN [failure |-> st.failure, args |-> <<>>, kwargs |-> <<>>]
        ELSE [failure |-> <<>>,
              args |-> st.args \o leftover_arguments(actual_args, st.used),
              kwargs |-> st.kwargs]

\* a template in which the splat placeholder is followed by another entry:
\* a positional one, a keyword placeholder after a positional splat, or a
\* keyword entry after a keyword splat
Misplaced(default_args, default_kwargs) ==
    \/ \E i \in 1..(Len(default_args) - 1) :
           default_args[i] = splat_args_placeholder
    \/ /\ \E i \in DOMAIN default_args :
              default_args[i] = splat_args_placeholder
       /\ \E j \in DOMAIN default_kwargs :
              default_kwargs[j][2] \in all_placeholders
    \/ \E j \in 1..(Len(default_kwargs) - 1) :
           default_kwargs[j][2] = splat_args_placeholder

\* variant of CurryMethod: such a template is refused when it is curried
CurryMethod_checking(h, s, recv, defaults) ==
    wrapped(h, recv,
            IF Misplaced(defaults.args, defaults.kwargs)
            THEN Fail(s, "AssertionError")
            ELSE Ok(s, Curried(h[recv].wrapped, defaults)),
            NoArgs)

\* CallableWrapper.curry = wrapped(curry): the new function is wrapped with
\* the curried node as previous; nothing of the template is looked at
CurryMethod(h, s, recv, defaults) ==
    wrapped(h, recv, Ok(s, Curried(h[recv].wrapped, defaults)), NoArgs)

\* self(*merged_args, **merged_kwargs) for the function under the curries: a
\* plain function returns a result, a bound method changes its receiver and
\* returns None; calls lists the calls of the function, with their arguments
target_function(s, v, pack) ==
    PyCall(s, v, IF v.meth # "" THEN None ELSE Raw("res"))
        @@ [msg |-> <<>>, got |-> pack, calls |-> <<pack>>]

\* variant of curried_wrapper: the merged arguments go to the function under
\* all the curries at once
curried_wrapper_skipping(s, v, pack) ==
    IF v.obj = "curried"
    THEN LET merged == merge_arguments(v.default_args, v.default_kwargs,
                                       pack.args, pack.kwargs)
         IN  IF merged.failure # <<>>
             THEN Fail(s, "AssertionError")
                      @@ [msg |-> merged.failure, got |-> NoArgs,
                          calls |-> <<>>]
             ELSE target_function(s, v.target,
                                  Pack(merged.args, merged.kwargs))
    ELSE target_function(s, v, pack)

\* variant of curried_wrapper: the function is called with the arguments as
\* they came before they are merged, and again with the merged ones
curried_wrapper_calling_first(s, v, pack) ==
    IF v.obj = "curried"
    THEN LET merged == merge_arguments(v.default_args, v.default_kwargs,
                                       pack.args, pack.kwargs)
             first == target_function(s, v.target, pack)
             second == target_function(first.store, v.target,
                                       Pack(merged.args, merged.kwargs))
         IN  IF merged.failure # <<>>
             THEN Fail(first.store, "AssertionError")
                      @@ [msg |-> merged.failure, got |-> NoArgs,
                          calls |-> first.calls]
             ELSE [second EXCEPT !.calls = first.calls \o @]
    ELSE target_function(s, v, pack)

\* wrapper(*actual_args, **actual_kwargs) of a curried function, down to the
\* function under all the curries, which returns a result; got is what that
\* function was called with and msg the assertion that failed
RECURSIVE curried_wrapper(_, _, _)
curried_wrapper(s, v, pack) ==
    IF v.obj = "curried"
    THEN LET merged == merge_arguments(v.default_args, v.default_kwargs,
                                       pack.args, pack.kwargs)
         IN  IF merged.failure # <<>>
             THEN Fail(s, "AssertionError")
                      @@ [msg |-> merged.failure, got |-> NoArgs,
                          calls |-> <<>>]
             ELSE curried_wrapper(s, v.target,
                                  Pack(merged.args, merged.kwargs))
    ELSE target_function(s, v, pack)

\* CallableWrapper.__call__ on a curried function
CurriedCall(h, s, recv, pack) ==
    LET r == curried_wrapper(s, h[recv].wrapped, pack)
    IN  wrapped(h, recv, r, r.got) @@ [msg |-> r.msg, calls |-> r.calls]

\* the template entries a program writes: a value or one of the placeholders
a_value == Raw("value")

TemplateEntries ==
    {a_value, wrap_function, reordering_placeholder(0),
     reordering_placeholder(1), splat_args_placeholder}

KeywordNames == <<"x", "y">>

\* the positional templates of n entries, every value a different one
PositionalTemplates(n) ==
    {[i \in 1..n |-> IF c[i] = a_value THEN default_arg(i - 1) ELSE c[i]] :
        c \in [1..n -> TemplateEntries]}

\* the keyword templates of n entries, names in the order of KeywordNames
KeywordTemplates(n) ==
    {[i \in 1..n |->
         <<KeywordNames[name[i]],
           IF c[i] = a_value THEN default_kwarg(KeywordNames[name[i]])
           ELSE c[i]>>] :
        name \in {f \in [1..n -> DOMAIN KeywordNames] :
                     \A i \in 1..n, j \in 1..n : i < j => f[i] < f[j]},
        c \in [1..n -> TemplateEntries]}

\* curry(*default_args, **default_kwargs) of at most MaxEntries entries
Templates ==
    UNION {{Pack(default_args, default_kwargs) :
                default_args \in PositionalTemplates(n),
                default_kwargs \in
                    UNION {KeywordTemplates(k) :
                              k \in 0..(IF MaxEntries - n < Len(KeywordNames)
                                        THEN MaxEntries - n
                                        ELSE Len(KeywordNames))}} :
           n \in 0..MaxEntries}

PositionalOnlyTemplates == {t \in Templates : t.kwargs = <<>>}

\* the keyword arguments of a call: any of x=, y=
ActualKeywords ==
    {SelectSeq(<< <<"x", actual_kwarg("x")>>, <<"y", actual_kwarg("y")>> >>,
               LAMBDA kv : kv[1] \in names) :
        names \in SUBSET {"x", "y"}}

\* the calls a program makes: up to MaxActual different positional arguments
ActualPacks ==
    {Pack([i \in 1..n |-> actual_arg(i - 1)], actual_kwargs) :
        n \in 0..MaxActual, actual_kwargs \in ActualKeywords}

\* the number of template entries of a function over all its curries
RECURSIVE EntriesOf(_)
EntriesOf(v) ==
    IF v.obj = "curried"
    THEN Len(v.default_args) + Len(v.default_kwargs) + EntriesOf(v.target)
    ELSE 0

\* n.curry(*defaults.args, **defaults.kwargs)
Curry(n, defaults) ==
    /\ Len(heap) <= MaxNodes
    /\ heap[n].cls = "CallableWrapper"
    /\ LET w == CurryMethod(heap, store, n, defaults)
       IN  /\ heap' = w.heap
           /\ result' = Outcome("curry", n, defaults, NoArgs, w.ret, w)
                            @@ [msg |-> <<>>]
    /\ UNCHANGED store

\* n(*pack.args, **pack.kwargs) on a function, curried or not
CallCurried(n, pack) ==
    /\ Len(heap) <= MaxNodes
    /\ heap[n].cls = "CallableWrapper"
    /\ \E w \in {CurriedCall(heap, store, n, pack)} :
           /\ heap' = w.heap
           /\ store' = w.store
           /\ result' = Outcome("call", n, pack, w.got, w.ret, w)
                            @@ [msg |-> w.msg, calls |-> w.calls]

\* the expression is still being evaluated: it starts with wrap and ends
\* with the call, whether that returns or raises
Chaining == heap # <<>> /\ result.op # "call"

\* the programs wrap(fn).curry(template)(arguments)
NextCurry ==
    \/ heap = <<>> /\ Wrap(Raw("fn"), 0)
    \/ /\ Chaining
       /\ heap[Len(heap)].wrapped = Raw("fn")
       /\ \E defaults \in Templates : Curry(Len(heap), defaults)
    \/ /\ Chaining
       /\ \E pack \in ActualPacks : CallCurried(Len(heap), pack)

SpecCurry == Init /\ [][NextCurry]_vars

\* the programs wrap(fn).curry(template).curry(template)...(arguments), with
\* positional templates of at most MaxEntries entries together
NextCurryAgain ==
    \/ heap = <<>> /\ Wrap(Raw("fn"), 0)
    \/ /\ Chaining
       /\ \E defaults \in PositionalOnlyTemplates :
              /\ EntriesOf(heap[Len(heap)].wrapped) + Len(defaults.args)
                     <= MaxEntries
              /\ Curry(Len(heap), defaults)
    \/ /\ Chaining
       /\ \E pack \in ActualPacks : CallCurried(Len(heap), pack)

SpecCurryAgain == Init /\ [][NextCurryAgain]_vars

-----------------------------------------------------------------------------
(* Cascading through .self *)

\* the last operation returned a node it created for a None result
ReturnedVoid ==
    /\ result.err = ""
    /\ result.node # 0
    /\ result.ret = None

\* C1: after a void operation reached through wrap(v) - a forwarding method
\* of the wrapper, or a call of a method of v - .self of the returned node is
\* a node, and its payload is the receiver v
CascadingSelfLaw ==
    LET forwarded == result.op \in {"setattr", "delattr", "print"}
        method == result.op = "call" /\ unwrap(heap, result.recv).meth # ""
        v == IF forwarded THEN unwrap(heap, result.recv)
             ELSE Raw(unwrap(heap, result.recv).obj)
        s == self(heap, result.node)
    IN  (ReturnedVoid /\ (forwarded \/ method))
            => (s # 0 /\ unwrap(heap, s) = v)

\* C2: .self of every node is a node, and its payload is not None
VoidNeverTerminal ==
    \A n \in Nodes :
        /\ self(heap, n) # 0
        /\ unwrap(heap, self(heap, n)) # None

\* C3 as claimed: .self of a node n is a node that has n as its previous and
\* carries n's own payload whenever that payload is not None
SelfWrapsOwnValue ==
    \A n \in Nodes :
        LET s == self(heap, n)
        IN  /\ s # 0
            /\ previous(heap, s) = n
            /\ unwrap(heap, n) # None => unwrap(heap, s) = unwrap(heap, n)

\* C3 as amended: .self of a node n is an existing, older node of n's chain
\* whatever n's payload is - n's previous, or the previous of that when n's
\* previous wraps a value classified as callable - and None when there is no
\* such node; its previous is never n
SelfReturnsEarlierNode ==
    \A n \in Nodes :
        LET p == previous(heap, n)
            s == self(heap, n)
        IN  /\ s < n
            /\ s # 0 => previous(heap, s) # n
            /\ s = IF p = 0 THEN 0
                   ELSE IF FirstMatch(unwrap(heap, p)) = "CallableWrapper"
                        THEN previous(heap, p)
                        ELSE p

\* a node with a payload of its own whose .self is the node two steps back,
\* carrying another payload
SelfSkipsOwnValue ==
    \E n \in Nodes :
        /\ unwrap(heap, n) # None
        /\ previous(heap, n) # 0
        /\ self(heap, n) # 0
        /\ self(heap, n) = previous(heap, previous(heap, n))
        /\ unwrap(heap, self(heap, n)) # unwrap(heap, n)

-----------------------------------------------------------------------------
(* The wrap factory *)

\* the arguments of the last wrap(wrapped, previous=previous)
WrapArg == result.args.args[1]

WrapPrevious == result.args.kwargs[1][2]

\* C5: wrap of a wrapper, with or without a previous, returns that very node
\* and leaves the heap, and so the node's payload and previous, as they are
WrapIdempotent ==
    /\ \A w \in Nodes, p \in {0} \cup Nodes :
           wrap(heap, Ref(w), p) = Done(heap, w, "")
    /\ (result.op = "wrap" /\ isinstance(WrapArg, "Wrapper"))
           => (result.err = "" /\ result.node = WrapArg.node)

\* a wrapper was wrapped with another node given as previous, and came back
\* itself with the previous it had
WrappedAWrapper ==
    /\ result.op = "wrap"
    /\ isinstance(WrapArg, "Wrapper")
    /\ WrapPrevious # None
    /\ result.node = WrapArg.node
    /\ previous(heap, result.node) # WrapPrevious.node

\* C6: wrap of a value that is no wrapper returns a node whose unwrap is that
\* value (wrap(None) with no previous constructs no node, see C9)
UnwrapRoundTrip ==
    (/\ result.op = "wrap"
     /\ ~isinstance(WrapArg, "Wrapper")
     /\ WrapArg # None \/ WrapPrevious # None)
    => (/\ result.err = ""
        /\ result.node # 0
        /\ unwrap(heap, result.node) = WrapArg)

\* a value was wrapped off a previous node with another payload, and unwraps
\* to itself
WrappedAndUnwrapped ==
    /\ result.op = "wrap"
    /\ ~isinstance(WrapArg, "Wrapper")
    /\ WrapPrevious # None
    /\ result.node # 0
    /\ unwrap(heap, result.node) = WrapArg
    /\ unwrap(heap, WrapPrevious.node) # WrapArg

\* C7: the class of every node is that of the first of module, text,
\* mapping, set, iterable, callable its payload is an instance of, and the
\* plain Wrapper exactly when it is an instance of none
ClassifiedInOrder ==
    \A n \in Nodes :
        LET v == unwrap(heap, n)
            c == heap[n].cls
            module == isinstance(v, "ModuleType")
            text == ~module /\ isinstance(v, "Text")
            mapping == ~module /\ ~text /\ isinstance(v, "Mapping")
            set == ~module /\ ~text /\ ~mapping /\ isinstance(v, "AbstractSet")
            iterable == /\ ~module /\ ~text /\ ~mapping /\ ~set
                        /\ isinstance(v, "Iterable")
            callable == v.isa \cap Classes = {"Callable"}
        IN  /\ c = "ModuleWrapper" <=> module
            /\ c = "TextWrapper" <=> text
            /\ c = "MappingWrapper" <=> mapping
            /\ c = "SetWrapper" <=> set
            /\ c = "IterableWrapper" <=> iterable
            /\ c = "CallableWrapper" <=> callable
            /\ c = "Wrapper" <=> v.isa \cap Classes = {}

\* a callable mapping that is a set as well is wrapped as a mapping, next to
\* a callable iterable wrapped as an iterable
AmbiguousKindsWrapped ==
    /\ \E n \in Nodes :
           /\ {"Mapping", "AbstractSet", "Callable"} \subseteq unwrap(heap, n).isa
           /\ heap[n].cls = "MappingWrapper"
    /\ \E n \in Nodes :
           /\ unwrap(heap, n).isa = {"Iterable", "Callable"}
           /\ heap[n].cls = "IterableWrapper"

-----------------------------------------------------------------------------
(* Chain history *)

\* the last operation was a successful attribute access, item access or call
Chained ==
    /\ result.op \in {"getattr", "getitem", "call"}
    /\ result.err = ""

\* C8 as claimed: every attribute access, item access and call through a
\* node returns a node whose previous is that node
ChainHistory ==
    Chained => (result.node # 0 /\ previous(heap, result.node) = result.recv)

\* C8 as amended: the returned node has the node operated on as its previous
\* when that node is no module node and the result is no wrapper; attribute
\* access on a module node returns a node without previous, and a result
\* that is a wrapper is returned as the node it is
ChainHistoryOfNewNodes ==
    Chained =>
        /\ result.node # 0
        /\ IF isinstance(result.ret, "Wrapper")
           THEN result.node = result.ret.node
           ELSE /\ unwrap(heap, result.node) = result.ret
                /\ previous(heap, result.node) =
                       IF /\ result.op = "getattr"
                          /\ heap[result.recv].cls = "ModuleWrapper"
                       THEN 0
                       ELSE result.recv

\* a call returned a plain value, wrapped in a node with the called node as
\* its previous
ChainedOffCall ==
    /\ result.op = "call"
    /\ result.err = ""
    /\ ~isinstance(result.ret, "Wrapper")
    /\ unwrap(heap, result.node) = result.ret
    /\ previous(heap, result.node) = result.recv

\* C9: every node has a payload or a previous, and wrapping None with no
\* previous raises and constructs nothing
NodeResolvable ==
    /\ \A n \in Nodes : unwrap(heap, n) # None \/ previous(heap, n) # 0
    /\ (result.op = "wrap" /\ WrapArg = None /\ WrapPrevious = None)
           => (result.err = "AssertionError" /\ result.node = 0)

\* None was wrapped with no previous while a node existed, and the heap did
\* not grow
ChainOffNoneRefused ==
    /\ result.op = "wrap"
    /\ WrapArg = None
    /\ WrapPrevious = None
    /\ result.err = "AssertionError"
    /\ Len(heap) > 0

-----------------------------------------------------------------------------
(* Calls *)

\* C10 as claimed: the called function receives the payload of every
\* argument that is a wrapper, and the result is wrapped
CallUnwrapsArguments ==
    (result.op = "call" /\ result.err = "")
    => (/\ result.got = UnwrappedPack(heap, result.args)
        /\ result.node # 0)

\* C10 as amended: the called function receives every argument as it was
\* given, a wrapper as the wrapper; the result is wrapped
CallPassesArgumentsOn ==
    (result.op = "call" /\ result.err = "")
    => (/\ result.got = result.args
        /\ result.node # 0
        /\ IF isinstance(result.ret, "Wrapper")
           THEN result.node = result.ret.node
           ELSE unwrap(heap, result.node) = result.ret)

\* a function was called with a wrapper as positional argument and received
\* the wrapper
CalledWithWrapper ==
    /\ result.op = "call"
    /\ result.err = ""
    /\ Len(result.args.args) = 1
    /\ isinstance(result.args.args[1], "Wrapper")
    /\ result.got.args[1] = result.args.args[1]

-----------------------------------------------------------------------------
(* Currying: what the curried function hands to the function under it *)

\* the last operation called a curried function
CalledCurried ==
    /\ result.op = "call"
    /\ unwrap(heap, result.recv).obj = "curried"

\* ... and the function under it was called
CurriedCallPassed == CalledCurried /\ result.err = ""

TheDefaultArgs == unwrap(heap, result.recv).default_args

\* the keyword template as the call sees it
TheDefaultKwargs ==
    merged_default_kwargs(unwrap(heap, result.recv).default_kwargs,
                          result.args.kwargs)

TheActualArgs == result.args.args

\* the template entries in the order they are resolved
TheEntries ==
    TheDefaultArgs \o [j \in 1..Len(TheDefaultKwargs) |-> TheDefaultKwargs[j][2]]

\* what the function under the curry received for entry k of the template
Received(k) ==
    IF k <= Len(TheDefaultArgs) THEN result.got.args[k]
    ELSE result.got.kwargs[k - Len(TheDefaultArgs)][2]

\* the number of entries before entry k that are in kinds
Before(k, kinds) == Cardinality({i \in 1..(k - 1) : TheEntries[i] \in kinds})

\* C11 as claimed: the N-th generic placeholder, counting generic
\* placeholders only, receives the N-th actual argument, and values are
\* passed on in their position
HolesCountedAlone ==
    CurriedCallPassed =>
        \A k \in DOMAIN TheEntries :
            /\ TheEntries[k] \in placeholders
                   => Received(k) = At(TheActualArgs, Before(k, placeholders))
            /\ TheEntries[k] \notin all_placeholders
                   => Received(k) = TheEntries[k]

\* C11 as amended: a generic placeholder receives the actual argument whose
\* index is the number of placeholders of any kind before it, positional
\* template first and keyword template after; values are passed on in their
\* position
HolesCountedAmongPlaceholders ==
    CurriedCallPassed =>
        \A k \in DOMAIN TheEntries :
            /\ TheEntries[k] \in placeholders
                   => /\ Before(k, all_placeholders) < Len(TheActualArgs)
                      /\ Received(k) =
                             At(TheActualArgs, Before(k, all_placeholders))
            /\ TheEntries[k] \notin all_placeholders
                   => Received(k) = TheEntries[k]

\* a template of a reordering placeholder, a generic one and a value was
\* called: the generic placeholder received the second argument
HoleAfterReorderingFilled ==
    /\ CurriedCallPassed
    /\ TheDefaultArgs =
           <<reordering_placeholder(0), wrap_function, default_arg(2)>>
    /\ result.got.args = <<actual_arg(0), actual_arg(1), default_arg(2)>>

\* C12: a reordering placeholder _k, wherever it stands and however often,
\* receives actual argument k
ReorderingPlaceholdersFilled ==
    CurriedCallPassed =>
        \A k \in DOMAIN TheEntries :
            TheEntries[k] \in reordering_placeholders
                => /\ TheEntries[k].index < Len(TheActualArgs)
                   /\ Received(k) = At(TheActualArgs, TheEntries[k].index)

\* _1 was used twice, once as keyword, after a generic placeholder, and
\* both received the second argument
ReorderingPlaceholderRepeated ==
    /\ CurriedCallPassed
    /\ TheDefaultArgs = <<wrap_function, reordering_placeholder(1)>>
    /\ TheDefaultKwargs = << <<"y", reordering_placeholder(1)>> >>
    /\ result.got.args[2] = actual_arg(1)
    /\ result.got.kwargs[1][2] = actual_arg(1)

\* C13: the splat placeholder receives one tuple of the actual arguments
\* from the index that is the number of placeholders before it; none of
\* them is appended again behind the template; a template whose only
\* placeholder is the splat placeholder in last place never fails
SplatCollects ==
    /\ CurriedCallPassed =>
           \A k \in DOMAIN TheEntries :
               TheEntries[k] = splat_args_placeholder =>
                   /\ Received(k) =
                          Tuple(From(TheActualArgs,
                                     Before(k, all_placeholders)))
                   /\ \A i \in (Len(TheDefaultArgs) + 1)..Len(result.got.args) :
                          \A j \in DOMAIN Received(k).items :
                              result.got.args[i] # Received(k).items[j]
    /\ (/\ CalledCurried
        /\ TheEntries # <<>>
        /\ TheEntries[Len(TheEntries)] = splat_args_placeholder
        /\ Before(Len(TheEntries), all_placeholders) = 0)
           => result.err = ""

\* a generic placeholder took the first argument and the splat placeholder
\* the two after it, as one tuple in one slot
SplatCollectedTheRest ==
    /\ CurriedCallPassed
    /\ TheDefaultArgs = <<wrap_function, splat_args_placeholder>>
    /\ result.got.args =
           <<actual_arg(0), Tuple(<<actual_arg(1), actual_arg(2)>>)>>

-----------------------------------------------------------------------------
(* Currying: the assertions *)

\* the template as the call sees it has the splat placeholder in a place
\* the assertions refuse: before another positional entry, positional with a
\* keyword placeholder left, or keyword with a keyword placeholder after it
MisplacedAtCall ==
    \/ \E i \in 1..(Len(TheDefaultArgs) - 1) :
           TheDefaultArgs[i] = splat_args_placeholder
    \/ /\ \E i \in DOMAIN TheDefaultArgs :
              TheDefaultArgs[i] = splat_args_placeholder
       /\ \E j \in DOMAIN TheDefaultKwargs :
              TheDefaultKwargs[j][2] \in all_placeholders
    \/ \E j \in DOMAIN TheDefaultKwargs, k \in DOMAIN TheDefaultKwargs :
           /\ j < k
           /\ TheDefaultKwargs[j][2] = splat_args_placeholder
           /\ TheDefaultKwargs[k][2] \in all_placeholders

\* the first splat placeholder of the template
FirstSplat ==
    CHOOSE k \in DOMAIN TheEntries :
        /\ TheEntries[k] = splat_args_placeholder
        /\ \A i \in 1..(k - 1) : TheEntries[i] # splat_args_placeholder

\* C14 as claimed: a call of a function curried with the splat placeholder
\* followed by any other template entry fails with 'needs to be last', for
\* every argument list
MisplacedSplatAlwaysRaises ==
    (/\ CalledCurried
     /\ Misplaced(unwrap(heap, result.recv).default_args,
                  unwrap(heap, result.recv).default_kwargs))
    => (result.err = "AssertionError" /\ result.msg = NeedsToBeLast)

\* C14 as amended: 'needs to be last' is raised only for a splat
\* placeholder followed by a positional entry or by a keyword placeholder
\* the call did not override; such a call always fails, with 'needs to be
\* last' unless a generic or reordering placeholder before the splat
\* placeholder lacked its argument, which is reported first
MisplacedSplatRaisesWhenReached ==
    CalledCurried =>
        /\ result.msg = NeedsToBeLast => MisplacedAtCall
        /\ MisplacedAtCall =>
               /\ result.err = "AssertionError"
               /\ result.node = 0
               /\ result.msg # NeedsToBeLast =>
                      /\ result.msg[1] = NotEnoughArguments(0, 0)[1]
                      /\ Before(FirstSplat,
                                placeholders \cup reordering_placeholders) > 0

\* x=_args, y=_ was called and refused as not last
KeywordSplatNotLastRefused ==
    /\ CalledCurried
    /\ TheDefaultArgs = <<>>
    /\ TheDefaultKwargs = << <<"x", splat_args_placeholder>>,
                             <<"y", wrap_function>> >>
    /\ Len(TheActualArgs) = 2
    /\ result.err = "AssertionError"
    /\ result.msg = NeedsToBeLast

Required(k) ==
    CASE TheEntries[k] \in placeholders -> Before(k, all_placeholders) + 1
      [] TheEntries[k] \in reordering_placeholders -> TheEntries[k].index + 1
      [] OTHER -> 0

\* the first entry of the template the actual arguments do not suffice for
FirstUnsatisfied ==
    CHOOSE k \in DOMAIN TheEntries :
        /\ Required(k) > Len(TheActualArgs)
        /\ \A i \in 1..(k - 1) : Required(i) <= Len(TheActualArgs)

\* C16: a call with too few actual arguments for a generic or reordering
\* placeholder fails; 'Not enough arguments' carries the number the first
\* such placeholder needs and the number given, and is raised for nothing
\* else ('needs to be last' comes first when the splat placeholder stands
\* before that placeholder)
NotEnoughArgumentsRaised ==
    CalledCurried =>
        LET short == \E k \in DOMAIN TheEntries :
                         Required(k) > Len(TheActualArgs)
            message == NotEnoughArguments(Required(FirstUnsatisfied),
                                          Len(TheActualArgs))
        IN  /\ (result.msg # <<>> /\ result.msg # NeedsToBeLast)
                   => (short /\ result.msg = message)
            /\ short =>
                   /\ result.err = "AssertionError"
                   /\ result.node = 0
                   /\ \/ result.msg = message
                      \/ /\ result.msg = NeedsToBeLast
                         /\ FirstSplat < FirstUnsatisfied

\* curry(_._1) was called with one argument: need at least 2, got 1
SecondArgumentMissing ==
    /\ CalledCurried
    /\ TheEntries = <<reordering_placeholder(1)>>
    /\ Len(TheActualArgs) = 1
    /\ result.err = "AssertionError"
    /\ result.msg = NotEnoughArguments(2, 1)

-----------------------------------------------------------------------------
(* Currying: leftovers, keyword arguments, currying again *)

\* the indexes of the actual arguments some placeholder used
Consumed ==
    UNION {CASE TheEntries[k] \in placeholders ->
                    {Before(k, all_placeholders)}
             [] TheEntries[k] \in reordering_placeholders ->
                    {TheEntries[k].index}
             [] TheEntries[k] = splat_args_placeholder ->
                    Before(k, all_placeholders)..(Len(TheActualArgs) - 1)
             [] OTHER -> {} :
           k \in DOMAIN TheEntries}

\* the actual arguments at the indexes in keep, in their order
Kept(keep) ==
    [j \in 1..Cardinality(keep) |->
        At(TheActualArgs,
           CHOOSE i \in keep : Cardinality({m \in keep : m < i}) = j - 1)]

\* what the function received behind the positional template
Leftovers ==
    SubSeq(result.got.args, Len(TheDefaultArgs) + 1, Len(result.got.args))

\* C17 as claimed: every actual argument no placeholder used is appended
\* behind the template, in order
LeftoversAllAppended ==
    CurriedCallPassed =>
        Leftovers = Kept((0..(Len(TheActualArgs) - 1)) \ Consumed)

\* C17 as amended: the actual arguments behind the highest index a
\* placeholder used are appended behind the template, in order, all of them
\* when no placeholder used any; unused arguments before that index are
\* dropped
LeftoversBehindLastUsed ==
    CurriedCallPassed =>
        Leftovers =
            Kept({i \in 0..(Len(TheActualArgs) - 1) :
                     \A u \in Consumed : u < i})

\* curry(_._1) was called with three arguments: the second filled the
\* placeholder, the third was appended and the first dropped
FirstArgumentDropped ==
    /\ CurriedCallPassed
    /\ TheEntries = <<reordering_placeholder(1)>>
    /\ Len(TheActualArgs) = 3
    /\ result.got.args = <<actual_arg(1), actual_arg(2)>>

\* C18: a keyword argument of the call replaces the template's entry of
\* that name, each name reaching the function once; when the placeholders
\* of the template are all keyword entries the call overrides, no
\* positional argument is used for them; and a function curried with one
\* generic placeholder, as keyword, receives the same when the value comes
\* by that keyword as when it comes as the positional argument
CallKeywordsOverride ==
    /\ CurriedCallPassed =>
           /\ \A j \in DOMAIN result.args.kwargs :
                  Cardinality({i \in DOMAIN result.got.kwargs :
                                  result.got.kwargs[i][1]
                                      = result.args.kwargs[j][1]}) = 1
           /\ \A j \in DOMAIN result.args.kwargs :
                  \E i \in DOMAIN result.got.kwargs :
                      result.got.kwargs[i] = result.args.kwargs[j]
           /\ (\A k \in DOMAIN TheEntries :
                   TheEntries[k] \notin all_placeholders)
                  => result.got.args = TheDefaultArgs \o TheActualArgs
    /\ \A n \in Nodes, name \in {"x", "y"} :
           LET f == unwrap(heap, n)
               by_keyword == CurriedCall(heap, store, n,
                                 Pack(<<>>, << <<name, actual_arg(0)>> >>))
               by_position == CurriedCall(heap, store, n,
                                  Pack(<<actual_arg(0)>>, <<>>))
           IN  (/\ f.obj = "curried"
                /\ f.target.obj # "curried"
                /\ \A i \in DOMAIN f.default_args :
                       f.default_args[i] \notin all_placeholders
                /\ \A j \in DOMAIN f.default_kwargs :
                       f.default_kwargs[j][2] \in all_placeholders
                           <=> f.default_kwargs[j]
                                   = <<name, wrap_function>>
                /\ \E j \in DOMAIN f.default_kwargs :
                       f.default_kwargs[j] = <<name, wrap_function>>)
               => /\ by_keyword.err = ""
                  /\ by_position.err = ""
                  /\ by_keyword.got = by_position.got

\* curry(x=_, y=value) was called with x= and one positional argument: x
\* received the keyword argument and the positional one was appended
PlaceholderOverridden ==
    /\ CurriedCallPassed
    /\ unwrap(heap, result.recv).default_args = <<>>
    /\ unwrap(heap, result.recv).default_kwargs =
           << <<"x", wrap_function>>, <<"y", default_kwarg("y")>> >>
    /\ result.args = Pack(<<actual_arg(0)>>, << <<"x", actual_kwarg("x")>> >>)
    /\ result.got =
           Pack(<<actual_arg(0)>>,
                << <<"x", actual_kwarg("x")>>, <<"y", default_kwarg("y")>> >>)

\* C19: the keyword entries keep their order, and a generic or splat
\* placeholder among them takes the actual arguments from the index that
\* is the number of placeholders in the positional template and in the
\* keyword entries before it
CursorShared ==
    CurriedCallPassed =>
        /\ Len(result.got.kwargs) = Len(TheDefaultKwargs)
        /\ \A j \in DOMAIN TheDefaultKwargs :
               LET cursor ==
                       Cardinality({i \in DOMAIN TheDefaultArgs :
                                       TheDefaultArgs[i] \in all_placeholders})
                       + Cardinality({i \in 1..(j - 1) :
                                         TheDefaultKwargs[i][2]
                                             \in all_placeholders})
               IN  /\ result.got.kwargs[j][1] = TheDefaultKwargs[j][1]
                   /\ TheDefaultKwargs[j][2] \in placeholders =>
                          /\ cursor < Len(TheActualArgs)
                          /\ result.got.kwargs[j][2]
                                 = At(TheActualArgs, cursor)
                   /\ TheDefaultKwargs[j][2] = splat_args_placeholder =>
                          result.got.kwargs[j][2]
                              = Tuple(From(TheActualArgs, cursor))

\* curry(_, y=_) was called with two arguments: the first went to the
\* positional placeholder, the second to y
KeywordPlaceholderContinued ==
    /\ CurriedCallPassed
    /\ TheDefaultArgs = <<wrap_function>>
    /\ TheDefaultKwargs = << <<"y", wrap_function>> >>
    /\ result.got = Pack(<<actual_arg(0)>>, << <<"y", actual_arg(1)>> >>)

\* the last operation called a function curried exactly twice
CalledCurriedTwice ==
    /\ CalledCurried
    /\ unwrap(heap, result.recv).target.obj = "curried"
    /\ unwrap(heap, result.recv).target.target.obj # "curried"

\* C20: a function curried twice receives the first template resolved
\* against what resolving the second template against the call's arguments
\* gives; a failure of either resolution is the failure of the call
CurryComposes ==
    CalledCurriedTwice =>
        LET second == unwrap(heap, result.recv)
            first == second.target
            outer == merge_arguments(second.default_args,
                                     second.default_kwargs,
                                     result.args.args, result.args.kwargs)
            inner == merge_arguments(first.default_args,
                                     first.default_kwargs,
                                     outer.args, outer.kwargs)
        IN  IF outer.failure # <<>>
            THEN /\ result.err = "AssertionError"
                 /\ result.msg = outer.failure
            ELSE IF inner.failure # <<>>
            THEN /\ result.err = "AssertionError"
                 /\ result.msg = inner.failure
            ELSE /\ result.err = ""
                 /\ result.got = Pack(inner.args, inner.kwargs)
                 /\ result.node # 0
                 /\ previous(heap, result.node) = result.recv

\* curry(_._1, _._0).curry(value) was called with one argument: the
\* function received the argument first and the value second
CurriedTwiceReordered ==
    /\ CalledCurriedTwice
    /\ unwrap(heap, result.recv).default_args = <<default_arg(0)>>
    /\ unwrap(heap, result.recv).target.default_args =
           <<reordering_placeholder(1), reordering_placeholder(0)>>
    /\ result.args = Pack(<<actual_arg(0)>>, <<>>)
    /\ result.got = Pack(<<actual_arg(0), default_arg(0)>>, <<>>)

-----------------------------------------------------------------------------
(* EachWrapper: functions built from expressions *)

MaxStages == 2

MaxObjects == 6

\* def identity(each): return each
identity ==
    [obj |-> "identity", meth |-> "", node |-> 0, isa |-> {"Callable"}]

\* an int
PyInt(i) == [obj |-> "int", meth |-> "", node |-> 0, isa |-> {}, int |-> i]

\* True and False
Bool(b) == Raw(IF b THEN "True" ELSE "False")

\* the closures EachWrapper hands to compose: operation(obj),
\* operation(placeholder), haystack.__contains__ and not_contains(needle)
Operation(kind, arg) ==
    [obj |-> "operation", meth |-> "", node |-> 0, isa |-> {"Callable"},
     kind |-> kind, arg |-> arg]

\* lambda *args, **kwargs: outer(self(*args, **kwargs))
Composed(inner, outer) ==
    [obj |-> "lambda", meth |-> "", node |-> 0, isa |-> {"Callable"},
     inner |-> inner, outer |-> outer]

\* an EachWrapper instance: its __operation, a node, and its __name, here
\* the steps it was built with
EachWrapper(operation, name) ==
    [cls |-> "EachWrapper", operation |-> operation, name |-> name]

\* what the functions and methods of the wrapped objects return: the method
\* of the list changes the list and returns None, the method of the function
\* returns a wrapper, the one each holds, any other method returns its
\* receiver
Returned(v) ==
    CASE v.meth # "" /\ v.obj = "lst" -> None
      [] v.meth # "" /\ v.obj = "fn" -> Ref(1)
      [] v.meth # "" -> Raw(v.obj)
      [] OTHER -> Raw("res")

\* getattr(operator, operator_name)(placeholder, *others)
PyOperator(s, operator_name, placeholder, others) ==
    CASE operator_name = "__eq__" -> Ok(s, Bool(placeholder = others[1]))
      [] operator_name = "__mod__" ->
             IF placeholder.obj = "int" /\ others[1].obj = "int"
             THEN Ok(s, PyInt(placeholder.int % others[1].int))
             ELSE Fail(s, "TypeError")
      [] OTHER ->
             IF placeholder.obj = "int" THEN Ok(s, PyInt(0 - placeholder.int))
             ELSE Fail(s, "TypeError")

\* needle in haystack
Contains(haystack, needle) ==
    needle.meth = "" /\ PyContains(haystack, needle.obj)

\* what a function built by EachWrapper did: Ok or Fail, and the values the
\* builtins of its stages were applied to
Applied(r, seen) == r @@ [seen |-> seen]

\* variant of each_operation: the result stays wrapped
each_operation_wrapped(h, s, op, obj) ==
    LET w == wrap(h, obj, 0)
    IN  IF isinstance(obj, "Wrapper") THEN Applied(Ok(s, obj), <<>>)
        ELSE IF w.err # "" THEN Applied(Fail(s, w.err), <<>>)
        ELSE Applied(Ok(s, Ref(w.node)), <<unwrap(w.heap, w.node)>>)

\* the closures of EachWrapper applied to obj:
\*   _(obj).__getattr__(name)._   _(obj)[index]._   _(obj)(*args, **kwargs)._
\*   __op__(placeholder, *others)   haystack.__contains__   not_contains
each_operation(h, s, op, obj) ==
    IF op.kind \in {"getattr", "getitem", "call"}
    THEN LET w == wrap(h, obj, 0)
         IN  IF w.err # "" THEN Applied(Fail(s, w.err), <<>>)
             ELSE LET f == CASE op.kind = "getattr" ->
                                    Getattr(w.heap, s, w.node, op.arg)
                             [] op.kind = "getitem" ->
                                    WrapperGetitem(w.heap, s, w.node, op.arg)
                             [] OTHER ->
                                    IF w.heap[w.node].cls = "CallableWrapper"
                                    THEN CallableCall(
                                             w.heap, s, w.node, op.arg,
                                             Returned(unwrap(w.heap, w.node)))
                                    ELSE Forwarding(
                                             Done(w.heap, 0, "TypeError"),
                                             Fail(s, "TypeError"), NoArgs)
                  IN  Applied(IF f.err # "" THEN Fail(f.store, f.err)
                              ELSE Ok(f.store, unwrap(f.heap, f.node)),
                              <<unwrap(w.heap, w.node)>>)
    ELSE Applied(CASE op.kind = "operator" ->
                          PyOperator(s, op.arg[1], obj, op.arg[2])
                   [] op.kind = "in" -> Ok(s, Bool(Contains(op.arg, obj)))
                   [] OTHER -> Ok(s, Bool(~Contains(op.arg, obj))),
                 <<obj>>)

\* variant of CallFunction: the outer function first
RECURSIVE CallFunction_outer_first(_, _, _, _)
CallFunction_outer_first(h, s, f, x) ==
    IF f.obj = "lambda"
    THEN LET outer == each_operation(h, s, f.outer, x)
         IN  IF ~outer.ok THEN outer
             ELSE LET inner == CallFunction_outer_first(h, outer.store,
                                                        f.inner, outer.value)
                  IN  [inner EXCEPT !.seen = outer.seen \o @]
    ELSE Applied(Ok(s, x), <<>>)

\* f(x) for identity and for the functions CallableWrapper.compose returns
RECURSIVE CallFunction(_, _, _, _)
CallFunction(h, s, f, x) ==
    IF f.obj = "lambda"
    THEN LET inner == CallFunction(h, s, f.inner, x)
         IN  IF ~inner.ok THEN inner
             ELSE LET outer == each_operation(h, inner.store, f.outer,
                                              inner.value)
                  IN  [outer EXCEPT !.seen = inner.seen \o @]
    ELSE Applied(Ok(s, x), <<>>)

\* CallableWrapper.compose = wrapped(lambda self, outer: lambda ...)
CallableCompose(h, s, recv, outer) ==
    wrapped(h, recv, Ok(s, Composed(unwrap(h, recv), outer)), NoArgs)

\* variant of EachStep: the step is composed onto the builder itself
EachStep_in_place(h, s, b, op) ==
    LET c == CallableCompose(h, s, h[b].operation, op)
    IN  Done([c.heap EXCEPT ![b] = EachWrapper(c.node, Append(h[b].name, op))],
             b, "")

\* EachWrapper.__getattr__, __getitem__, __call__, in_ and not_in:
\* EachWrapper(self.__operation.compose(operation), name=...)
EachStep(h, s, b, op) ==
    LET c == CallableCompose(h, s, h[b].operation, op)
    IN  Done(Append(c.heap, EachWrapper(c.node, Append(h[b].name, op))),
             Len(c.heap) + 1, "")

\* variant of EachOperator: the operator is one more step of the builder
EachOperator_chaining(h, s, b, op) ==
    LET c == EachStep(h, s, b, op)
    IN  Forwarding(c, Ok(s, Ref(c.node)), NoArgs)

\* the methods _make_operator makes:
\* self._EachWrapper__operation.compose(operation)._
EachOperator(h, s, b, op) ==
    LET c == CallableCompose(h, s, h[b].operation, op)
    IN  Forwarding(Done(c.heap, 0, ""), Ok(s, unwrap(c.heap, c.node)), NoArgs)

\* EachWrapper.unwrap
EachUnwrap(h, b) == unwrap(h, h[b].operation)

\* each = EachWrapper(_(identity), name='each')
each == 2

InitEach ==
    /\ heap = <<[wrapped |-> identity, previous |-> 0,
                 cls |-> "CallableWrapper"],
                EachWrapper(1, <<>>)>>
    /\ store = [o \in Receivers |-> "bar"]
    /\ result = Outcome("init", 0, NoArgs, NoArgs, None, Done(<<>>, 0, ""))
                    @@ [seen |-> <<>>]

\* the builders made so far
Builders == {b \in Nodes : heap[b].cls = "EachWrapper"}

\* the steps a program writes
Steps ==
    {Operation("getattr", name) : name \in AttrNames}
    \cup {Operation("getitem", key) : key \in ItemKeys}
    \cup {Operation("call", NoArgs)}
    \cup {Operation(kind, Raw("map")) : kind \in {"in", "not in"}}

\* the operators a program applies
Operators ==
    {Operation("operator", <<"__eq__", <<Raw("item")>> >>),
     Operation("operator", <<"__mod__", <<PyInt(3)>> >>),
     Operation("operator", <<"__neg__", <<>> >>)}

\* the values the built functions are applied to
Inputs == {Raw(o) : o \in Receivers} \cup {None, PyInt(5), Raw("foo")}

\* b.name, b[key], b(*args, **kwargs), b.in_(haystack), b.not_in(haystack)
Step(b, op) ==
    /\ Len(heap) + 2 <= MaxObjects
    /\ Len(heap[b].name) < MaxStages
    /\ \E w \in {EachStep(heap, store, b, op)} :
           /\ heap' = w.heap
           /\ result' = Outcome("step", b, Pack(<<op>>, <<>>), NoArgs,
                                Ref(w.node), w) @@ [seen |-> <<>>]
    /\ UNCHANGED store

\* b == other, b % other, -b
Operator(b, op) ==
    /\ Len(heap) + 1 <= MaxObjects
    /\ \E w \in {EachOperator(heap, store, b, op)} :
           /\ heap' = w.heap
           /\ result' = Outcome("operator", b, Pack(<<op>>, <<>>), NoArgs,
                                w.ret, w) @@ [seen |-> <<>>]
    /\ UNCHANGED store

\* b._(x)
Apply(b, x) ==
    /\ \E r \in {CallFunction(heap, store, EachUnwrap(heap, b), x)} :
           /\ store' = r.store
           /\ result' = Outcome("apply", b, Pack(<<x>>, <<>>), NoArgs,
                                r.value, Done(heap, 0, r.err))
                            @@ [seen |-> r.seen]
    /\ UNCHANGED heap

\* (b == other)(x): the function the last operator returned is called
ApplyOperator(x) ==
    /\ result.op = "operator"
    /\ \E r \in {CallFunction(heap, store, result.ret, x)} :
           /\ store' = r.store
           /\ result' = Outcome("called", result.recv,
                                Pack(<<x>>, <<>>), result.args,
                                r.value, Done(heap, 0, r.err))
                            @@ [seen |-> r.seen]
    /\ UNCHANGED heap

NextEach ==
    \/ \E b \in Builders, op \in Steps : Step(b, op)
    \/ \E b \in Builders, op \in Operators : Operator(b, op)
    \/ \E b \in Builders, x \in Inputs : Apply(b, x)
    \/ \E x \in Inputs : ApplyOperator(x)

SpecEach == InitEach /\ [][NextEach]_vars

-----------------------------------------------------------------------------
(* each: what the built functions compute *)

\* the last operation unwrapped a builder and applied the function to a value
AppliedBuilder == result.op = "apply"

\* the steps the applied builder was built with, and the value
TheSteps == heap[result.recv].name

TheInput == result.args.args[1]

\* one step applied to a value as plain Python applies it
PlainStep(s, v, op) ==
    CASE op.kind = "getattr" -> PyGetattr(s, v, op.arg)
      [] op.kind = "getitem" -> PyGetitem(s, v, op.arg)
      [] op.kind = "call" ->
             IF isinstance(v, "Callable") THEN PyCall(s, v, Returned(v))
             ELSE Fail(s, "TypeError")
      [] op.kind = "in" -> Ok(s, Bool(Contains(op.arg, v)))
      [] OTHER -> Ok(s, Bool(~Contains(op.arg, v)))

\* the steps applied one after the other, the first error ending it
RECURSIVE PlainSteps(_, _, _)
PlainSteps(s, x, steps) ==
    IF steps = <<>> THEN Ok(s, x)
    ELSE LET before == PlainSteps(s, x, SubSeq(steps, 1, Len(steps) - 1))
         IN  IF ~before.ok THEN before
             ELSE PlainStep(before.store, before.value, steps[Len(steps)])

\* a wrapper that a step returned replaced by its payload
Unwrapped(h, r) == [r EXCEPT !.value = Payload(h, @)]

\* one step applied to a value as a wrapper of the value applies it: None
\* cannot be wrapped, a mapping gives its item of that name before its
\* attribute, a module imports the submodule of that name when it has no
\* such attribute, only what wrap() takes for a callable can be called, and
\* a wrapper that is the result is unwrapped
WrappedStep(h, s, v, op) ==
    CASE op.kind \in {"in", "not in"} -> PlainStep(s, v, op)
      [] v = None -> Fail(s, "AssertionError")
      [] op.kind = "getattr" /\ FirstMatch(v) = "MappingWrapper"
             /\ PyContains(v, op.arg) -> PyGetitem(s, v, op.arg)
      [] op.kind = "getattr" /\ FirstMatch(v) = "ModuleWrapper"
             /\ ~PyHasattr(s, v, op.arg) -> ImportModule(s, v, op.arg)
      [] op.kind = "call" /\ FirstMatch(v) # "CallableWrapper" ->
             Fail(s, "TypeError")
      [] OTHER -> Unwrapped(h, PlainStep(s, v, op))

RECURSIVE WrappedSteps(_, _, _, _)
WrappedSteps(h, s, x, steps) ==
    IF steps = <<>> THEN Ok(s, x)
    ELSE LET before == WrappedSteps(h, s, x,
                                    SubSeq(steps, 1, Len(steps) - 1))
         IN  IF ~before.ok THEN before
             ELSE WrappedStep(h, before.store, before.value,
                              steps[Len(steps)])

\* the step taken ends with the outcome r
Yields(r) ==
    /\ result'.err = r.err
    /\ r.ok => result'.ret = r.value
    /\ store' = r.store

\* C21 as claimed: each is the identity, and a builder unwrapped and applied
\* to a value yields what its steps yield applied to the value one after the
\* other in construction order
EachAppliesPlainSteps ==
    [][AppliedBuilder' => Yields(PlainSteps(store, TheInput', TheSteps'))]_vars

\* C21 as amended: each is the identity, and a builder unwrapped and applied
\* to a value yields what its steps yield applied one after the other in
\* construction order, each step as a wrapper of the value it meets applies
\* it
EachAppliesWrappedSteps ==
    [][AppliedBuilder' => Yields(WrappedSteps(heap, store, TheInput', TheSteps'))]_vars

\* each.m() was unwrapped and applied to the dict: the method was looked up
\* and then called, and returned the dict
MethodCallerApplied ==
    /\ AppliedBuilder
    /\ TheSteps = <<Operation("getattr", "m"), Operation("call", NoArgs)>>
    /\ TheInput = Raw("map")
    /\ result.err = ""
    /\ result.ret = Raw("map")

-----------------------------------------------------------------------------
(* each: the attribute step *)

\* the last step of the applied builder
TheLastStep == TheSteps[Len(TheSteps)]

\* the applied builder ends with an attribute step
AppliedAttributeStep ==
    /\ AppliedBuilder
    /\ TheSteps # <<>>
    /\ TheLastStep.kind = "getattr"

\* what reaches the last step of steps when the function is applied to x:
\* what the steps before it yield
ReachedLastStep(h, s, x, steps) ==
    WrappedSteps(h, s, x, SubSeq(steps, 1, Len(steps) - 1))

\* C22 as claimed: the stage of an attribute step returns what getattr of
\* that name returns on the value it is applied to, or raises what getattr
\* raises
AttributeStageIsGetattr ==
    [][AppliedAttributeStep' =>
           LET v == ReachedLastStep(heap, store, TheInput', TheSteps')
           IN  v.ok => Yields(PyGetattr(v.store, v.value, TheLastStep'.arg))]_vars

\* C22 as amended: the stage of an attribute step returns what getattr of
\* that name returns on the value it is applied to, or raises what getattr
\* raises, unless the value is None, where it raises AssertionError, or a
\* mapping with the name among its keys, where it returns the item, or a
\* module without that attribute, where it imports the submodule
AttributeStageIsGetattrOfWrapper ==
    [][AppliedAttributeStep' =>
           LET v == ReachedLastStep(heap, store, TheInput', TheSteps')
               name == TheLastStep'.arg
           IN  v.ok =>
                   CASE v.value = None ->
                            Yields(Fail(v.store, "AssertionError"))
                     [] FirstMatch(v.value) = "MappingWrapper"
                            /\ PyContains(v.value, name) ->
                            Yields(PyGetitem(v.store, v.value, name))
                     [] FirstMatch(v.value) = "ModuleWrapper"
                            /\ ~PyHasattr(v.store, v.value, name) ->
                            Yields(ImportModule(v.store, v.value, name))
                     [] OTHER ->
                            Yields(PyGetattr(v.store, v.value, name))]_vars

\* each.foo was unwrapped and applied to the dict, which has the key foo and
\* the attribute foo: the function returned the item
AttributeStageReturnedItem ==
    /\ AppliedAttributeStep
    /\ TheSteps = <<Operation("getattr", "foo")>>
    /\ TheInput = Raw("map")
    /\ PyGetattr(store, Raw("map"), "foo").ok
    /\ result.err = ""
    /\ result.ret = Raw("item")

-----------------------------------------------------------------------------
(* each: operators *)

\* the last operation applied an operator, or in_ or not_in, to a builder
AppliedOperatorTo ==
    /\ result.op \in {"operator", "step"}
    /\ result.args.args[1].kind \in {"operator", "in", "not in"}

\* the last operation returned a function and no builder
ReturnedPlainFunction ==
    /\ result.node = 0
    /\ result.ret.obj = "lambda"
    /\ ~isinstance(result.ret, "Wrapper")
    /\ heap[Len(heap)].cls # "EachWrapper"

\* the last operation called the function an operator returned
CalledOperatorFunction == result.op = "called"

\* C23 as claimed: an operator applied to a builder, in and not in among
\* them, returns a plain function and no builder
EveryOperatorTerminates == AppliedOperatorTo => ReturnedPlainFunction

\* C23 as amended: an operator applied to a builder with operator syntax
\* returns a plain function and no builder, and the function called with x
\* returns the operator applied to what the builder's stages yield for x and
\* the operand; in_ and not_in return a builder with one more stage
OperatorSyntaxTerminates ==
    /\ [](result.op = "operator" =>
              /\ ReturnedPlainFunction
              /\ result.ret = Composed(EachUnwrap(heap, result.recv),
                                       result.args.args[1]))
    /\ [](result.op = "step" =>
              /\ result.node \in Builders
              /\ result.ret = Ref(result.node)
              /\ EachUnwrap(heap, result.node)
                     = Composed(EachUnwrap(heap, result.recv),
                                result.args.args[1]))
    /\ [][CalledOperatorFunction' =>
              LET before == WrappedSteps(heap, store, TheInput', TheSteps')
                  operator == result'.got.args[1].arg
              IN  IF before.ok
                  THEN Yields(PyOperator(before.store, operator[1],
                                         before.value, operator[2]))
                  ELSE Yields(before)]_vars

\* (each['foo'] == 'item') was called with the dict and returned True
OperatorFunctionCalled ==
    /\ CalledOperatorFunction
    /\ TheSteps = <<Operation("getitem", "foo")>>
    /\ result.got.args[1].arg[1] = "__eq__"
    /\ TheInput = Raw("map")
    /\ result.err = ""
    /\ result.ret = Bool(TRUE)

-----------------------------------------------------------------------------
(* each: the built functions neither return nor pass on wrappers *)

\* the last operation called a built function: an unwrapped builder or what
\* an operator returned
CalledBuiltFunction == result.op \in {"apply", "called"}

\* C24: a built function called with a plain value returns a plain value,
\* and the builtins of its stages are applied to plain values, the first of
\* them to the argument itself; the wrappers of its stages stay inside it
BuiltFunctionsStayPlain ==
    /\ [](CalledBuiltFunction =>
              /\ ~isinstance(result.ret, "Wrapper")
              /\ \A i \in DOMAIN result.seen :
                     ~isinstance(result.seen[i], "Wrapper")
              /\ result.seen # <<>> => result.seen[1] = TheInput
              /\ result.node = 0)
    /\ [][CalledBuiltFunction' => heap' = heap]_vars

\* each.m() was unwrapped and applied to the function, whose method returns
\* a wrapper: the built function returned what that wrapper wraps
WrapperResultUnwrapped ==
    /\ AppliedBuilder
    /\ TheSteps = <<Operation("getattr", "m"), Operation("call", NoArgs)>>
    /\ TheInput = Raw("fn")
    /\ Returned(Bound("fn", "m")) = Ref(1)
    /\ result.seen = <<Raw("fn"), Bound("fn", "m")>>
    /\ result.err = ""
    /\ result.ret = unwrap(heap, 1)

-----------------------------------------------------------------------------
(* each: builders are never modified *)

\* C29: no operation changes a builder or the function it holds: each stays
\* the identity function, unwrapped and applied it returns its argument, and
\* every builder keeps the stages it was made with
BuildersNeverModified ==
    /\ [](/\ heap[each] = EachWrapper(1, <<>>)
          /\ EachUnwrap(heap, each) = identity)
    /\ [](AppliedBuilder /\ result.recv = each =>
              result.err = "" /\ result.ret = TheInput)
    /\ [][\A n \in Nodes : heap'[n] = heap[n]]_vars

\* each.foo and each['foo'] were both built from each, and each.foo, built
\* first, was applied after each['foo'] was built: it still looked up the
\* attribute
BuilderAppliedAfterSibling ==
    /\ AppliedBuilder
    /\ Len(heap) = 6
    /\ heap[4].name = <<Operation("getattr", "foo")>>
    /\ heap[6].name = <<Operation("getitem", "foo")>>
    /\ heap[each].name = <<>>
    /\ result.recv = 4
    /\ TheInput = Raw("obj")
    /\ result.err = ""
    /\ result.ret = Raw("bar")

-----------------------------------------------------------------------------
(* Each.call of src/fluentpy.py: the method caller constructor *)

\* an instance of MethodCallerConstructor
MethodCallerConstructor(method_name) ==
    [cls |-> "MethodCallerConstructor", _method_name |-> method_name]

\* operator.methodcaller(name, *args, **kwargs)
methodcaller(name, pack) ==
    [obj |-> "methodcaller", meth |-> "", node |-> 0, isa |-> {"Callable"},
     name |-> name, args |-> pack]

\* f(x) for a methodcaller f: getattr(x, name)(*args, **kwargs)
CallMethodcaller(s, f, x) ==
    LET method == PyGetattr(s, x, f.name.obj)
    IN  IF ~method.ok THEN method
        ELSE PyCall(method.store, method.value, Returned(method.value))

\* the property Each.call: a new class and its instance
EachCall(h) == Done(Append(h, MethodCallerConstructor(None)), Len(h) + 1, "")

\* MethodCallerConstructor.__getattr__
ConstructorGetattr(h, c, method_name) ==
    Done([h EXCEPT ![c]._method_name = Raw(method_name)], c, "")

\* variant of ConstructorCall: the assertion left out
ConstructorCall_unchecked(h, s, c, pack) ==
    Forwarding(Done(h, 0, ""), Ok(s, methodcaller(h[c]._method_name, pack)),
               NoArgs)

\* MethodCallerConstructor.__call__
ConstructorCall(h, s, c, pack) ==
    IF h[c]._method_name = None
    THEN Forwarding(Done(h, 0, "AssertionError"), Fail(s, "AssertionError"),
                    NoArgs)
    ELSE Forwarding(Done(h, 0, ""),
                    Ok(s, methodcaller(h[c]._method_name, pack)), NoArgs)

\* the argument lists given to the method callers
MethodArguments == {NoArgs, Pack(<<Raw("obj")>>, <<>>)}

\* each.call
AccessCall ==
    /\ Len(heap) < MaxNodes
    /\ \E w \in {EachCall(heap)} :
           /\ heap' = w.heap
           /\ result' = Outcome("each.call", 0, NoArgs, NoArgs, None, w)
    /\ UNCHANGED store

\* c.method_name
SelectMethod(c, method_name) ==
    /\ \E w \in {ConstructorGetattr(heap, c, method_name)} :
           /\ heap' = w.heap
           /\ result' = Outcome("select", c,
                                Pack(<<Raw(method_name)>>, <<>>), NoArgs,
                                None, w)
    /\ UNCHANGED store

\* c(*args, **kwargs)
Construct(c, pack) ==
    /\ \E w \in {ConstructorCall(heap, store, c, pack)} :
           /\ heap' = w.heap
           /\ result' = Outcome("construct", c, pack, NoArgs, w.ret, w)
    /\ UNCHANGED store

\* the method caller the last operation constructed, called with x
CallConstructed(x) ==
    /\ result.op = "construct"
    /\ result.err = ""
    /\ \E r \in {CallMethodcaller(store, result.ret, x)} :
           /\ store' = r.store
           /\ result' = Outcome("methodcaller", result.recv,
                                Pack(<<x>>, <<>>), result.ret.args, r.value,
                                Done(heap, 0, r.err))
    /\ UNCHANGED heap

NextEachCall ==
    \/ AccessCall
    \/ \E c \in Nodes, method_name \in AttrNames : SelectMethod(c, method_name)
    \/ \E c \in Nodes, pack \in MethodArguments : Construct(c, pack)
    \/ \E x \in Inputs : CallConstructed(x)

SpecEachCall == Init /\ [][NextEachCall]_vars

-----------------------------------------------------------------------------
(* Wrapper.tee and Iterable.tee of src/fluentpy.py, over iterators *)

MaxItems == 2

\* the iterator objects live in the store, a sequence: an iterator over what
\* is left of a sequence, the data two tee iterators share (the iterator they
\* read and what they have read of it) or a tee iterator at a position
Iter(rest) == [kind |-> "iter", rest |-> rest]

TeeData(source) == [kind |-> "teedata", source |-> source, buffer |-> <<>>]

TeeIterator(data) == [kind |-> "tee", data |-> data, pos |-> 0]

\* the iterator stored at id, as a value
Iterator(id) ==
    [obj |-> "iterator", meth |-> "", node |-> 0, isa |-> {"Iterable"},
     id |-> id]

\* hasattr(v, '__next__')
IsIterator(v) == v.obj = "iterator"

\* next(iterator): the element, or stop at the end
RECURSIVE PyNext(_, _)
PyNext(st, id) ==
    IF st[id].kind = "iter"
    THEN IF st[id].rest = <<>>
         THEN [store |-> st, ok |-> FALSE, value |-> 0]
         ELSE [store |-> [st EXCEPT ![id].rest = Tail(@)], ok |-> TRUE,
               value |-> Head(st[id].rest)]
    ELSE LET data == st[id].data
         IN  IF st[id].pos < Len(st[data].buffer)
             THEN [store |-> [st EXCEPT ![id].pos = @ + 1], ok |-> TRUE,
                   value |-> st[data].buffer[st[id].pos + 1]]
             ELSE LET read == PyNext(st, st[data].source)
                  IN  IF ~read.ok THEN read
                      ELSE [store |-> [read.store EXCEPT
                                          ![data].buffer = Append(@, read.value),
                                          ![id].pos = @ + 1],
                            ok |-> TRUE, value |-> read.value]

\* tuple(iterator), were it taken now
RECURSIVE Remaining(_, _)
Remaining(st, id) ==
    IF st[id].kind = "iter" THEN st[id].rest
    ELSE LET data == st[id].data
         IN  SubSeq(st[data].buffer, st[id].pos + 1, Len(st[data].buffer))
             \o Remaining(st, st[data].source)

\* first, second = itertools.tee(iterator, 2)
itertools_tee(st, id) ==
    [store |-> st \o <<TeeData(id), TeeIterator(Len(st) + 1),
                       TeeIterator(Len(st) + 1)>>,
     first |-> Len(st) + 2, second |-> Len(st) + 3]

\* function(view): the side effect function takes count elements off the
\* iterator it is handed and returns something
RECURSIVE SideEffect(_, _, _)
SideEffect(st, v, count) ==
    IF count = 0 \/ ~IsIterator(v) THEN st
    ELSE SideEffect(PyNext(st, v.id).store, v, count - 1)

\* what tee did: Done, the store it leaves, the views the function was called
\* with and what the function returned
Teed(w, st, views, ret) ==
    [heap |-> w.heap, node |-> w.node, err |-> w.err, store |-> st,
     got |-> Pack(views, <<>>), ret |-> ret]

\* Wrapper.tee
WrapperTee(h, st, recv, count, ret) ==
    Teed(Done(h, recv, ""), SideEffect(st, unwrap(h, recv), count),
         <<Ref(recv)>>, ret)

\* variant of IterableTee: the function is handed the iterator itself
IterableTee_shared(h, st, recv, count, ret) ==
    WrapperTee(h, st, recv, count, ret)

\* Iterable.tee
IterableTee(h, st, recv, count, ret) ==
    IF IsIterator(unwrap(h, recv))
    THEN LET both == itertools_tee(st, unwrap(h, recv).id)
             first == wrap(h, Iterator(both.first), recv)
             second == wrap(first.heap, Iterator(both.second), recv)
         IN  Teed(second,
                  SideEffect(both.store, Iterator(both.first), count),
                  <<Ref(first.node)>>, ret)
    ELSE WrapperTee(h, st, recv, count, ret)

\* n.tee(function): Iterable, Mapping and Set have the override
TeeMethod(h, st, recv, count, ret) ==
    IF h[recv].cls \in {"IterableWrapper", "MappingWrapper", "SetWrapper"}
    THEN IterableTee(h, st, recv, count, ret)
    ELSE WrapperTee(h, st, recv, count, ret)

\* the program starts with one iterator over MaxItems elements
InitTee ==
    /\ heap = <<>>
    /\ store = <<Iter([i \in 1..MaxItems |-> i])>>
    /\ result = Outcome("init", 0, NoArgs, NoArgs, None, Done(<<>>, 0, ""))

\* the values wrapped: the iterator and one value of every other kind
TeeValues == {Iterator(1)} \cup {Raw(o) : o \in Receivers}

\* wrap(v), where the expression starts
WrapValue(v) ==
    /\ heap = <<>>
    /\ \E w \in {wrap(heap, v, 0)} :
           /\ heap' = w.heap
           /\ result' = Outcome("wrap", 0, Pack(<<v>>, <<>>), NoArgs, None, w)
    /\ UNCHANGED store

\* n.tee(function)
Tee(n, count, ret) ==
    /\ Len(heap) + 2 <= MaxObjects
    /\ \E w \in {TeeMethod(heap, store, n, count, ret)} :
           /\ heap' = w.heap
           /\ store' = w.store
           /\ result' = Outcome("tee", n, Pack(<<PyInt(count)>>, <<>>),
                                w.got, w.ret, w)

\* next(n.unwrap): the chain goes on with the iterator of a node
TakeNext(n) ==
    /\ IsIterator(unwrap(heap, n))
    /\ \E r \in {PyNext(store, unwrap(heap, n).id)} :
           /\ store' = r.store
           /\ result' = Outcome("next", n, NoArgs, NoArgs, PyInt(r.value),
                                Done(heap, 0,
                                     IF r.ok THEN "" ELSE "StopIteration"))
    /\ UNCHANGED heap

NextTee ==
    \/ \E v \in TeeValues : WrapValue(v)
    \/ \E n \in Nodes, count \in 0..MaxItems, ret \in {None, Raw("res")} :
           Tee(n, count, ret)
    \/ \E n \in Nodes : TakeNext(n)

SpecTee == InitTee /\ [][NextTee]_vars

\* C26 as claimed: tee calls the function once with a view of the node,
\* returns the node itself, which nothing changed, and what the node
\* iterates over is what it iterated over before
TeeReturnsTheNode ==
    [][result'.op = "tee" =>
           /\ Len(result'.got.args) = 1
           /\ result'.node = result'.recv
           /\ heap' = heap
           /\ IsIterator(unwrap(heap, result'.recv)) =>
                  Remaining(store', unwrap(heap', result'.node).id)
                      = Remaining(store, unwrap(heap, result'.recv).id)]_vars

\* C26 as amended: tee calls the function once and returns a node that does
\* not wrap what the function returned; for a node that does not wrap an
\* iterator the function is handed the node and tee returns the node,
\* unchanged; for a node that wraps an iterator the function is handed a new
\* node and tee returns another new node, both with the node as previous and
\* each wrapping an iterator of its own, and the returned one iterates over
\* everything the node had left, whatever the function took
TeeRetainsTheElements ==
    [][result'.op = "tee" =>
           LET n == result'.recv
               view == result'.got.args[1].node
           IN  /\ Len(result'.got.args) = 1
               /\ \A k \in Nodes : heap'[k] = heap[k]
               /\ ~IsIterator(unwrap(heap, n)) =>
                      /\ view = n
                      /\ result'.node = n
                      /\ heap' = heap
               /\ IsIterator(unwrap(heap, n)) =>
                      /\ Len(heap') = Len(heap) + 2
                      /\ view # result'.node
                      /\ {view, result'.node} \cap Nodes = {}
                      /\ previous(heap', view) = n
                      /\ previous(heap', result'.node) = n
                      /\ unwrap(heap', view) # unwrap(heap', result'.node)
                      /\ Remaining(store', unwrap(heap', result'.node).id)
                             = Remaining(store, unwrap(heap, n).id)]_vars

\* tee on the node of the iterator, the function taking every element of its
\* view: the returned node is a new one and still has every element
TeeAfterFunctionTookAll ==
    /\ result.op = "tee"
    /\ result.args.args[1] = PyInt(MaxItems)
    /\ IsIterator(unwrap(heap, result.recv))
    /\ result.node # result.recv
    /\ Remaining(store, unwrap(heap, result.got.args[1].node).id) = <<>>
    /\ Len(Remaining(store, unwrap(heap, result.node).id)) = MaxItems

-----------------------------------------------------------------------------
(* Lookups that fail on the wrapped value *)

\* the name or the key of the lookup that result records
TheName == result.args.args[1].obj

\* the last operation raised what the lookup r raised, made no node and left
\* every node as it was
Relayed(r) ==
    /\ result'.err = r.err
    /\ result'.node = 0
    /\ heap' = heap

\* the last operation returned a new node for what the lookup r returned,
\* the receiver before it, and left every other node as it was
Rewrapped(r) ==
    /\ result'.err = ""
    /\ result'.node = Len(heap) + 1
    /\ Len(heap') = Len(heap) + 1
    /\ \A k \in Nodes : heap'[k] = heap[k]
    /\ unwrap(heap', result'.node) = r.value
    /\ previous(heap', result'.node) = result'.recv

\* item lookups, and attribute lookups on the nodes whose class is not in
\* excepted: a lookup that fails on the wrapped value is relayed; on a Mapping
\* node a name that is a key gives the item, any other name plain attribute
\* lookup
LookupsRelayed(excepted) ==
    /\ result'.op = "getitem" =>
           LET item == PyGetitem(store, unwrap(heap, result'.recv), TheName')
           IN  ~item.ok => Relayed(item)
    /\ (result'.op = "getattr" /\ heap[result'.recv].cls \notin excepted) =>
           LET v == unwrap(heap, result'.recv)
               attr == PyGetattr(store, v, TheName')
               item == PyGetitem(store, v, TheName')
               mapping == heap[result'.recv].cls = "MappingWrapper"
               key == mapping /\ PyContains(v, TheName')
           IN  /\ (key /\ item.ok) => Rewrapped(item)
               /\ (mapping /\ ~key /\ attr.ok) => Rewrapped(attr)
               /\ (~key /\ ~attr.ok) => Relayed(attr)

\* C27 as claimed: an attribute or item lookup through a node, of any class,
\* that fails on the wrapped value raises the error the wrapped value raised,
\* creates no node and leaves every node unchanged; attribute access on a
\* Mapping node returns the item when the name is a key and otherwise is
\* plain attribute lookup, raising AttributeError when that fails too
LookupFailuresRelayed == [][LookupsRelayed({})]_vars

\* C27 as amended: the same on every node that is not a Module node; a Module
\* node imports the name that is no attribute of its module and returns a new
\* node without previous for the submodule, or raises the ImportError of the
\* import, creating no node
LookupFailuresRelayedOrImported ==
    [][/\ LookupsRelayed({"ModuleWrapper"})
       /\ (/\ result'.op = "getattr"
           /\ heap[result'.recv].cls = "ModuleWrapper"
           /\ ~PyHasattr(store, unwrap(heap, result'.recv), TheName')) =>
              LET module == ImportModule(store, unwrap(heap, result'.recv),
                                         TheName')
              IN  IF module.ok
                  THEN /\ result'.err = ""
                       /\ Len(heap') = Len(heap) + 1
                       /\ \A k \in Nodes : heap'[k] = heap[k]
                       /\ unwrap(heap', result'.node) = module.value
                       /\ previous(heap', result'.node) = 0
                  ELSE /\ result'.err = "ImportError"
                       /\ result'.node = 0
                       /\ heap' = heap]_vars

\* a name that is neither a key nor an attribute looked up on a Mapping node:
\* the AttributeError came through
MappingLookupFailed ==
    /\ result.op = "getattr"
    /\ heap[result.recv].cls = "MappingWrapper"
    /\ ~PyContains(unwrap(heap, result.recv), TheName)
    /\ result.err = "AttributeError"
    /\ result.node = 0

-----------------------------------------------------------------------------
(* IterableWrapper.get, over sized sequences and iterators *)

\* _absent_default_argument = object()
absent_default_argument == Raw("_absent_default_argument")

\* isinstance(v, typing.Sized): the sequences are, the iterators are not
IsSized(v) == ~IsIterator(v)

\* items[index] of a sequence, a negative index counting from the end
PyIndex(s, items, index) ==
    IF 0 <= index /\ index < Len(items) THEN Ok(s, items[index + 1])
    ELSE IF index < 0 /\ -index <= Len(items)
         THEN Ok(s, items[Len(items) + index + 1])
         ELSE Fail(s, "IndexError")

\* for index, element in enumerate(self): if index == target_index: return
\* element; and return default after the loop
RECURSIVE Enumerate(_, _, _, _, _)
Enumerate(st, id, index, target_index, default) ==
    LET element == PyNext(st, id)
    IN  IF ~element.ok THEN Ok(element.store, default)
        ELSE IF index = target_index
             THEN Ok(element.store, PyInt(element.value))
             ELSE Enumerate(element.store, id, index + 1, target_index,
                            default)

\* the body of IterableWrapper.get, self the payload
get(st, v, target_index, default) ==
    IF ~IsSized(v) THEN Enumerate(st, v.id, 0, target_index, default)
    ELSE IF default # absent_default_argument /\ target_index >= Len(v.items)
         THEN Ok(st, default)
         ELSE PyIndex(st, v.items, target_index)

\* IterableWrapper.get = wrapped(get)
IterableGet(h, st, recv, target_index, default) ==
    wrapped(h, recv, get(st, unwrap(h, recv), target_index, default), NoArgs)

InitGet ==
    /\ heap = <<>>
    /\ store = <<>>
    /\ result = Outcome("init", 0, NoArgs, NoArgs, None, Done(<<>>, 0, ""))

\* the arguments of get: the default is left out or given
GetArguments(target_index, default) ==
    IF default = absent_default_argument
    THEN Pack(<<PyInt(target_index)>>, <<>>)
    ELSE Pack(<<PyInt(target_index), default>>, <<>>)

\* wrap((1, ..., len))
WrapSequence(len) ==
    /\ Len(heap) < MaxNodes
    /\ \E w \in {wrap(heap, Tuple([i \in 1..len |-> PyInt(i)]), 0)} :
           /\ heap' = w.heap
           /\ result' = Outcome("wrap", 0, NoArgs, NoArgs, None, w)
    /\ UNCHANGED store

\* wrap(iter((1, ..., len)))
WrapIterator(len) ==
    /\ Len(heap) < MaxNodes
    /\ store' = Append(store, Iter([i \in 1..len |-> i]))
    /\ \E w \in {wrap(heap, Iterator(Len(store) + 1), 0)} :
           /\ heap' = w.heap
           /\ result' = Outcome("wrap", 0, NoArgs, NoArgs, None, w)

\* n.get(target_index) and n.get(target_index, default)
Get(n, target_index, default) ==
    /\ Len(heap) < MaxNodes
    /\ heap[n].cls = "IterableWrapper"
    /\ \E w \in {IterableGet(heap, store, n, target_index, default)} :
           /\ heap' = w.heap
           /\ store' = w.store
           /\ result' = Outcome("get", n,
                                GetArguments(target_index, default),
                                NoArgs, w.ret, w)

NextGet ==
    \/ \E len \in 0..MaxItems : WrapSequence(len)
    \/ \E len \in 0..MaxItems : WrapIterator(len)
    \/ \E n \in Nodes, target_index \in -1..MaxItems,
          default \in {absent_default_argument, Raw("fnord")} :
           Get(n, target_index, default)

SpecGet == InitGet /\ [][NextGet]_vars

\* what the receiver of the last get held before the call: the items of the
\* sequence, or what the iterator had left
ItemsBefore ==
    IF IsIterator(unwrap(heap, result'.recv))
    THEN [i \in 1..Len(Remaining(store, unwrap(heap, result'.recv).id)) |->
             PyInt(Remaining(store, unwrap(heap, result'.recv).id)[i])]
    ELSE unwrap(heap, result'.recv).items

\* C28: get with an index from 0 on returns the element at the index when
\* there is one, of a sized sequence and of an iterator alike; with no
\* element there it returns the default when one is given and raises
\* IndexError, returning nothing, when none is
GetElementOrDefaultOrIndexError ==
    [][(result'.op = "get" /\ result'.args.args[1].int >= 0) =>
           LET index == result'.args.args[1].int
           IN  IF index < Len(ItemsBefore)
               THEN /\ result'.err = ""
                    /\ result'.ret = ItemsBefore[index + 1]
               ELSE IF Len(result'.args.args) = 2
                    THEN /\ result'.err = ""
                         /\ result'.ret = result'.args.args[2]
                    ELSE /\ result'.err = "IndexError"
                         /\ result'.node = 0]_vars

-----------------------------------------------------------------------------
(* curry: the arguments are merged before the function is called *)

\* the programs f = wrap(lst.m).curry(template); f(arguments); f(arguments);
\* ... with a bound method that changes its receiver, as seen.add does, and
\* calls of f until two of them have returned
NextCurryCalls ==
    \/ heap = <<>> /\ Wrap(Bound("lst", "m"), 0)
    \/ /\ Len(heap) = 1
       /\ \E defaults \in Templates : Curry(1, defaults)
    \/ /\ Len(heap) \in {2, 3}
       /\ \E pack \in ActualPacks : CallCurried(2, pack)

SpecCurryCalls == Init /\ [][NextCurryCalls]_vars

\* C30: a call of a curried function whose template cannot be resolved
\* raises without calling the function under it and without any of its side
\* effects; a call whose template resolves calls that function exactly once,
\* with the merged arguments; no call changes the curried function or any
\* node, and the same call made again passes the same arguments
MergedBeforeCalled ==
    [][(result'.op = "call" /\ unwrap(heap, result'.recv).obj = "curried") =>
           LET f == unwrap(heap, result'.recv)
               merged == merge_arguments(f.default_args, f.default_kwargs,
                                         result'.args.args,
                                         result'.args.kwargs)
               passed == Pack(merged.args, merged.kwargs)
           IN  /\ \A k \in Nodes : heap'[k] = heap[k]
               /\ merged.failure # <<>> =>
                      /\ result'.err = "AssertionError"
                      /\ result'.calls = <<>>
                      /\ store' = store
                      /\ heap' = heap
               /\ merged.failure = <<>> =>
                      /\ result'.err = ""
                      /\ result'.calls = <<passed>>
                      /\ store' = target_function(store, f.target,
                                                  passed).store
               /\ (/\ result.op = "call"
                   /\ result.recv = result'.recv
                   /\ result.args = result'.args) =>
                      /\ result'.calls = result.calls
                      /\ result'.err = result.err]_vars

\* a curried method called with too few arguments: it raised, the method was
\* not called and its receiver is as it was
CurriedMethodNotCalled ==
    /\ result.op = "call"
    /\ unwrap(heap, result.recv).obj = "curried"
    /\ unwrap(heap, result.recv).target = Bound("lst", "m")
    /\ result.err = "AssertionError"
    /\ result.calls = <<>>
    /\ store["lst"] = "bar"

====
